---------------------------- MODULE Spec2Model ----------------------------
(***************************************************************************)
(* A model of the mcp-pytest client runtime:                               *)
(*   - MCPClientSession  (client/session.py): connect / disconnect /       *)
(*     call_tool over one subprocess-backed protocol session;              *)
(*   - MCPServerManager  (client/manager.py): the named registry of        *)
(*     sessions with sequential and parallel start-up and teardown;        *)
(*   - ToolCaller        (client/tool_caller.py): outcome classification   *)
(*     and the call history.                                               *)
(* Every await of the Python code that really suspends is a step boundary; *)
(* the synchronous code between two suspension points is one action.       *)
(***************************************************************************)
EXTENDS Integers, Sequences, FiniteSets, TLC

(***************************************************************************)
(* Bounds of the model.                                                    *)
(***************************************************************************)
NumServers == 2      \* configured servers, named 1..NumServers in config order
MaxSessions == 3     \* MCPClientSession objects the manager may construct
NumCallers == 2      \* concurrent callers of the manager in SpecStartRace
MaxCalls == 2        \* length the call history may reach before clear_history
MaxCancels == 1      \* external cancellations of the task running connect()

Names == 1..NumServers
UnknownName == NumServers + 1      \* a name that is not in the configuration
AllNames == Names \cup {UnknownName}
NoName == 0
SessionIds == 1..MaxSessions
NoSession == 0
Callers == 1..NumCallers
ChildId(n) == NumCallers + n       \* the gather() task that starts server n
Children == {ChildId(n) : n \in Names}
TaskIds == Callers \cup Children
NoTask == 0

VARIABLES
    sess,        \* the MCPClientSession objects constructed so far
    nsess,       \* how many of them there are
    sessions,    \* MCPServerManager._sessions: name -> session id (0: no key)
    locks,       \* MCPServerManager._locks: the names that have a lock
    lockOwner,   \* per name, the task holding its asyncio.Lock (0: free)
    task,        \* per task, the operation it runs and where it is suspended
    history,     \* ToolCaller._call_history
    initiated,   \* tool names of the calls begun since the last clear_history
    cancels      \* external cancellations delivered so far

vars == <<sess, nsess, sessions, locks, lockOwner, task, history, initiated, cancels>>

(***************************************************************************)
(* MCPClientSession: the object's fields and the resources behind them.    *)
(*   session  : _session is not None                                       *)
(*   stack    : _exit_stack is not None                                    *)
(*   streams  : _read_stream / _write_stream are not None                  *)
(*   held     : contexts entered on the current exit stack and not yet     *)
(*              exited (1: the stdio subprocess, 2: plus the ClientSession)*)
(*   orphaned : contexts entered on an exit stack the object no longer     *)
(*              references (they can never be closed through the object)   *)
(*   hung     : the server process has stopped responding: it answers no   *)
(*              request and does not shut down on its own                  *)
(***************************************************************************)
NoSessionObject ==
    [name |-> NoName, session |-> FALSE, stack |-> FALSE, streams |-> FALSE,
     held |-> 0, orphaned |-> 0, hung |-> FALSE]

NewSession(n) == [NoSessionObject EXCEPT !.name = n]

is_connected(s) == s.session

\* connect(), line 89: a fresh AsyncExitStack replaces whatever was referenced.
EnterConnect(s) ==
    [s EXCEPT !.stack = TRUE, !.orphaned = s.orphaned + s.held, !.held = 0]

\* connect(), lines 96-98: the stdio_client context is entered.
EnterStdio(s) == [s EXCEPT !.streams = TRUE, !.held = 1]

\* connect(), lines 101-103: the ClientSession context is entered and stored.
EnterClientSession(s) == [s EXCEPT !.session = TRUE, !.held = 2]

\* AsyncExitStack.aclose(): every context on the stack is exited, whether or
\* not one of the exits raises.
AClose(s) == [s EXCEPT !.held = 0]

\* _cleanup(): close the exit stack if there is one, then drop every field.
CleanupSkipsCloseMutant(s) ==
    [s EXCEPT !.session = FALSE, !.stack = FALSE, !.streams = FALSE]

cleanup(s) ==
    [(IF s.stack THEN AClose(s) ELSE s)
        EXCEPT !.session = FALSE, !.stack = FALSE, !.streams = FALSE]

\* A session that holds nothing and reports itself disconnected.
FullyDisconnected(s) ==
    /\ ~is_connected(s)
    /\ ~s.stack
    /\ ~s.streams
    /\ s.held = 0


(***************************************************************************)
(* Tasks.  op is the public operation the task runs, pc the await it is    *)
(* suspended at ("idle": nothing called yet, "done": the operation ended,  *)
(* with exc the exception it raised, "none" for a normal return).          *)
(***************************************************************************)
NoError == [present |-> FALSE, text |-> <<>>]
NoResult == [isError |-> FALSE, content |-> <<>>]
NoOutcome ==
    [name |-> "", arguments |-> "", result |-> NoResult, duration_seconds |-> 0,
     success |-> FALSE, error_message |-> NoError]
\* assertions=None of call_and_assert; a plain call() has none either.
NoAssertions == [given |-> FALSE, list |-> <<>>]
NoCall ==
    [tool |-> "", arguments |-> "", timeout |-> 0, expect_error |-> FALSE,
     via |-> "call", assertions |-> NoAssertions]

\* An assertion object: a leaf of assertions/tool_result.py, a
\* NotAssertion around one inner assertion, or a CompositeAssertion around
\* a list of them.
Leaf(k) == [cls |-> k, operator |-> "", inner |-> <<>>]
NotAssertion(a) == [cls |-> "NotAssertion", operator |-> "", inner |-> <<a>>]
CompositeAssertion(op, inner) ==
    [cls |-> "CompositeAssertion", operator |-> op, inner |-> inner]

NoVerdict ==
    [passed |-> FALSE, message |-> <<>>, details |-> "", raised |-> "none", evaluated |-> 0]

\* The locals of wait_for_condition: its arguments, the time since
\* start_time, what the evaluations of the condition have ended with so
\* far, the elapsed time at the latest evaluation and the value returned.
NoWait ==
    [timeout |-> 0, poll_interval |-> 0, elapsed |-> 0, seen |-> {},
     evaluated_at |-> -1, returned |-> "none"]

\* What an exception raised by the manager or by call_and_assert carries.
NoDetail == [server_name |-> NoName, available |-> <<>>, lines |-> <<>>]

IdleTask ==
    [op |-> "none", pc |-> "idle", name |-> NoName, sid |-> NoSession,
     exc |-> "none", ret |-> NoSession, todo |-> <<>>, errors |-> <<>>,
     call |-> NoCall, under |-> "none", outcome |-> NoOutcome,
     server_names |-> <<>>, logged |-> <<>>, detail |-> NoDetail,
     checked |-> <<>>, assertion |-> Leaf(""), verdict |-> NoVerdict,
     text_cache |-> NoError, read |-> <<>>, reads |-> 0, wait |-> NoWait,
     asked |-> "", found |-> <<>>]

ConnectPcs == {"stdio", "sessctx", "init"}
Ready(t) == task[t].pc \in {"idle", "done"}

\* The task's operation ends: it returns ret (exc = "none") or raises exc.
Ended(t, exc, ret) ==
    [task[t] EXCEPT !.pc = "done", !.exc = exc, !.ret = ret]

\* isinstance(e, Exception), as `except Exception` tests it: true of
\* TimeoutError, ConnectionError, ValueError and KeyError, not of
\* CancelledError.
IsException(exc) == exc \in {"TimeoutError", "ConnectionError", "ValueError", "Exception", "KeyError"}

(***************************************************************************)
(* ToolCaller: pure parts of call().                                       *)
(***************************************************************************)
DefaultTimeout == 30      \* ToolCaller.__init__: default_timeout = 30.0
NoTimeout == -1           \* timeout=None

TextBlock(t) == [type |-> "text", text |-> t]
ImageBlock == [type |-> "image", text |-> ""]
HasText(b) == b.type = "text"

\* timeout if timeout is not None else self._default_timeout
effective_timeout(timeout) ==
    IF timeout # NoTimeout THEN timeout ELSE DefaultTimeout

\* f"{effective_timeout}s" for the values the model uses (30.0 is a float).
SecondsText(x) ==
    CASE x = 30 -> "30.0s"
      [] x = 5 -> "5s"
      [] x = 0 -> "0s"
      [] OTHER -> "?s"

\* session.call_tool, line 230: the TimeoutError it raises on deadline expiry.
TimeoutMessage(tool, eff) ==
    <<"Tool call '", tool, "' timed out after ", SecondsText(eff)>>

\* session._ensure_connected, line 245.
NotConnectedMessage == <<"MCP server '", "name", "' is not connected">>

\* arguments = {} when None was passed.
NormalizeArguments(a) == IF a = "None" THEN "{}" ELSE a

RECURSIVE FirstText(_)
FirstText(content) ==
    IF content = <<>> THEN <<"Unknown error">>
    ELSE IF HasText(Head(content)) THEN <<Head(content).text>>
    ELSE FirstText(Tail(content))

\* extract_error_message: the first text-bearing block, or "Unknown error".
extract_error_message(result) == FirstText(result.content)

Msg(text) == [present |-> TRUE, text |-> text]

\* call(), lines 137-147: the underlying call returned `result`.
ClassifyIgnoresExpectMutant(result, expect_error) ==
    [success |-> ~result.isError,
     error_message |-> IF result.isError
                         THEN Msg(extract_error_message(result)) ELSE NoError]

ClassifyResult(result, expect_error) ==
    IF expect_error
      THEN [success |-> result.isError,
            error_message |-> IF ~result.isError
                                THEN Msg(<<"Expected error but tool succeeded">>)
                                ELSE NoError]
      ELSE [success |-> ~result.isError,
            error_message |-> IF result.isError
                                THEN Msg(extract_error_message(result))
                                ELSE NoError]

\* call(), lines 149-153: the underlying call raised TimeoutError(msg).
ClassifyTimeoutFailsMutant(msg, expect_error) ==
    [success |-> FALSE, error_message |-> Msg(msg)]

ClassifyTimeout(msg, expect_error) ==
    [success |-> expect_error, error_message |-> Msg(msg)]

\* call(), lines 155-159: the underlying call raised another exception.
ClassifyExceptionFailsMutant(msg, expect_error) ==
    [success |-> FALSE,
     error_message |-> Msg(<<"Tool call failed: ">> \o msg)]

ClassifyException(msg, expect_error) ==
    [success |-> expect_error,
     error_message |-> Msg(<<"Tool call failed: ">> \o msg)]

\* CallToolResult(content=[], isError=True), lines 151 and 157.
ErrorResult == [isError |-> TRUE, content |-> <<>>]

\* call(), lines 128 and 161: the time the call took.  A call that timed
\* out lasted its effective timeout; a call that ended otherwise is taken to
\* have ended at once.
Elapsed(call, kind) == IF kind = "timeout" THEN call.timeout ELSE 0

\* call(), lines 161-168.
ToolCallResult(call, result, duration, verdict) ==
    [name |-> call.tool, arguments |-> call.arguments, result |-> result,
     duration_seconds |-> duration,
     success |-> verdict.success, error_message |-> verdict.error_message]

\* What the awaited session.call_tool can end with.
Contents ==
    { <<>>,
      <<ImageBlock, TextBlock("boom")>>,
      <<TextBlock("Echo: "), TextBlock("Hello, MCP!")>>,
      <<TextBlock("")>> }
Results == [isError : BOOLEAN, content : Contents]
UnderlyingOutcomes ==
    [kind : {"result"}, result : Results]
      \cup [kind : {"timeout", "exception"}, result : {ErrorResult}]
ServerErrorMessage == <<"McpError">>

\* call(), lines 149 and 155: the except clauses catch TimeoutError and
\* every other Exception that session.call_tool raises.
CaughtOnlyTimeoutMutant(kind) == kind = "timeout"

Caught(kind) == kind \in {"timeout", "exception"}

\* The exception session.call_tool raises for each way it can fail.
RaisedBy(kind) == IF kind = "timeout" THEN "TimeoutError" ELSE "Exception"

\* The outcome call() builds from what the underlying call ended with; msg
\* is the text of the exception when it raised one other than a timeout.
OutcomeOf(call, under, msg) ==
    CASE under.kind = "result" ->
           ToolCallResult(call, under.result, Elapsed(call, under.kind),
                          ClassifyResult(under.result, call.expect_error))
      [] under.kind = "timeout" ->
           ToolCallResult(call, ErrorResult, Elapsed(call, under.kind),
                          ClassifyTimeout(TimeoutMessage(call.tool, call.timeout),
                                          call.expect_error))
      [] OTHER ->
           ToolCallResult(call, ErrorResult, Elapsed(call, under.kind),
                          ClassifyException(msg, call.expect_error))

\* get_last_call(), line 267, as a list: empty for None, else the one
\* outcome returned.
GetLastCallOldestMutant(h) == IF h # <<>> THEN <<h[1]>> ELSE <<>>

get_last_call(h) == IF h # <<>> THEN <<h[Len(h)]>> ELSE <<>>

\* get_calls_for_tool(tool_name), line 271.
get_calls_for_tool(h, tool_name) == SelectSeq(h, LAMBDA c : c.name = tool_name)

\* call(), line 170.
RecordPrependsMutant(h, outcome) == <<outcome>> \o h

RecordCall(h, outcome) == Append(h, outcome)

(***************************************************************************)
(* Assertions (assertions/tool_result.py) and call_and_assert.             *)
(***************************************************************************)
MaxAssertions == 2      \* longest assertion list handed to call_and_assert

\* The assertion objects a test hands to call_and_assert: SuccessAssertion(),
\* ErrorAssertion(), ResultContainsAssertion("boom") and a CustomAssertion
\* whose predicate raises.
AssertionKinds ==
    {"SuccessAssertion", "ErrorAssertion", "ResultContainsAssertion", "CustomAssertion"}

\* Those, DurationAssertion(5) and ErrorAssertion("BOOM").
LeafKinds == AssertionKinds \cup {"DurationAssertion", "ErrorPatternAssertion"}

MaxSeconds == 5                        \* DurationAssertion(max_seconds=5)
ErrorPattern == "BOOM"                 \* ErrorAssertion(error_pattern="BOOM")
PredicateError == "bad predicate"      \* str(e) of what the predicate raises

\* text_content, lines 42-47: the texts of the text-bearing blocks, in
\* the order of the blocks.
FirstTextOnlyMutant(content) ==
    LET texts == SelectSeq(content, HasText) IN
    IF texts = <<>> THEN <<>> ELSE <<texts[1].text>>

texts_of(content) ==
    LET texts == SelectSeq(content, HasText) IN
    [i \in 1..Len(texts) |-> texts[i].text]

\* "\n".join(texts), as the sequence of its fragments.
RECURSIVE JoinLines(_)
JoinLines(texts) ==
    IF texts = <<>> THEN <<>>
    ELSE IF Len(texts) = 1 THEN <<texts[1]>>
    ELSE <<texts[1], "\n">> \o JoinLines(Tail(texts))

\* ToolCallResult.text_content, lines 36-51: the value a read returns and
\* the _text_content it leaves, given the _text_content it finds.
text_content(cache, outcome) ==
    IF cache.present THEN [value |-> cache.text, cache |-> cache]
    ELSE IF outcome.result.content = <<>> THEN [value |-> <<>>, cache |-> cache]
    ELSE LET joined == JoinLines(texts_of(outcome.result.content)) IN
         [value |-> joined, cache |-> Msg(joined)]

MaxReads == 2           \* reads of text_content of one outcome

\* ToolCallResult.text_content holds the texts of the text-bearing blocks.
TextContentHas(outcome, text) ==
    \E i \in 1..Len(outcome.result.content) :
        HasText(outcome.result.content[i]) /\ outcome.result.content[i].text = text

\* Truth value of an Optional[str]: None and "" are false.
Truthy(m) == m.present /\ \E i \in 1..Len(m.text) : m.text[i] # ""

\* re.IGNORECASE: letters compare by their lower-case form.
Lower(x) == IF x = "BOOM" THEN "boom" ELSE x

\* A search that tells upper case from lower case.
SearchCaseSensitiveMutant(pattern, text) == \E i \in 1..Len(text) : text[i] = pattern

\* pattern.search(text): the pattern occurs in the text.  A text is the
\* concatenation of its fragments and the only pattern is a word that
\* occurs in no fragment but as the whole of it.
Search(pattern, text) == \E i \in 1..Len(text) : Lower(text[i]) = Lower(pattern)

\* CustomAssertion.check, lines 310-317: `except Exception` around the
\* predicate.
PredicateUncaughtMutant(exc) == FALSE

PredicateCaught(exc) == IsException(exc)

AssertionResult(passed, message) ==
    [passed |-> passed, message |-> message, details |-> "", raised |-> "none"]

\* assertion.check(result): the AssertionResult (raised: the exception that
\* left check() instead).
check(a, outcome) ==
    CASE a = "SuccessAssertion" ->
           AssertionResult(outcome.success, "Tool call should succeed")
      [] a = "ErrorAssertion" ->
           IF outcome.success
             THEN AssertionResult(FALSE, "Tool call should fail")
             ELSE AssertionResult(TRUE, "Tool call failed as expected")
      [] a = "ErrorPatternAssertion" ->
           IF outcome.success
             THEN AssertionResult(FALSE, "Tool call should fail")
           ELSE IF Truthy(outcome.error_message)
                   /\ ~Search(ErrorPattern, outcome.error_message.text)
             THEN AssertionResult(FALSE, "Error message should match pattern: BOOM")
             ELSE AssertionResult(TRUE, "Tool call failed as expected")
      [] a = "DurationAssertion" ->
           IF outcome.duration_seconds > MaxSeconds
             THEN AssertionResult(FALSE, "Tool call should complete within 5s")
             ELSE AssertionResult(TRUE, "Tool call completed in time")
      [] a = "CustomAssertion" ->
           IF PredicateCaught("ValueError")
             THEN [passed |-> FALSE,
                   message |-> "Assertion check failed with error: bad predicate",
                   details |-> PredicateError, raised |-> "none"]
             ELSE [passed |-> FALSE, message |-> "", details |-> "",
                   raised |-> "ValueError"]
      [] a = "RaisingAssertion" ->
           [passed |-> FALSE, message |-> "", details |-> "", raised |-> "ValueError"]
      [] OTHER ->
           IF TextContentHas(outcome, "boom")
             THEN AssertionResult(TRUE, "Result contains 'boom'")
             ELSE AssertionResult(FALSE, "Result should contain 'boom'")

\* assertion.description
description(a) ==
    CASE a = "SuccessAssertion" -> "Tool call succeeds"
      [] a = "ErrorAssertion" -> "Tool call fails"
      [] a = "ErrorPatternAssertion" -> "Tool call fails with error matching 'BOOM'"
      [] a = "DurationAssertion" -> "Duration <= 5s"
      [] a = "CustomAssertion" -> "predicate holds"
      [] a = "RaisingAssertion" -> "check raises"
      [] OTHER -> "Result contains 'boom'"

\* f"- {assertion.description}: {assertion_result.message}"
FailedLine(a, r) == <<"- ", description(a), ": ", r.message>>

\* The loop of call_and_assert leaving at the first failed assertion.
RECURSIVE RunAssertionsShortCircuitMutant(_, _)
RunAssertionsShortCircuitMutant(list, outcome) ==
    IF list = <<>> THEN [failed |-> <<>>, checked |-> <<>>, raised |-> "none"]
    ELSE LET a == Head(list)
             r == check(a, outcome) IN
         IF ~r.passed
           THEN [failed |-> <<FailedLine(a, r)>>, checked |-> <<a>>, raised |-> r.raised]
           ELSE LET rest == RunAssertionsShortCircuitMutant(Tail(list), outcome) IN
                [failed |-> rest.failed, checked |-> <<a>> \o rest.checked,
                 raised |-> rest.raised]

\* call_and_assert, lines 198-205: every assertion is checked; the lines
\* of the failed ones are collected in list order.  An exception that
\* leaves a check() leaves the loop.
RECURSIVE RunAssertions(_, _)
RunAssertions(list, outcome) ==
    IF list = <<>> THEN [failed |-> <<>>, checked |-> <<>>, raised |-> "none"]
    ELSE LET a == Head(list)
             r == check(a, outcome) IN
         IF r.raised # "none"
           THEN [failed |-> <<>>, checked |-> <<a>>, raised |-> r.raised]
           ELSE LET rest == RunAssertions(Tail(list), outcome) IN
                [failed |-> (IF r.passed THEN <<>> ELSE <<FailedLine(a, r)>>)
                               \o rest.failed,
                 checked |-> <<a>> \o rest.checked,
                 raised |-> rest.raised]

\* call_and_assert, lines 207-211: the message of the AssertionError.
AssertionErrorOf(tool, failed) ==
    [server_name |-> NoName, available |-> <<>>,
     lines |-> <<<<"Tool call '", tool, "' failed assertions:">>>> \o failed]

(***************************************************************************)
(* NotAssertion and CompositeAssertion (assertions/base.py).  A message or *)
(* description is the sequence of the fragments it is concatenated from.   *)
(***************************************************************************)
MaxInner == 2           \* longest list of inner assertions of a composite

RECURSIVE DescriptionOf(_)
RECURSIVE JoinDescriptions(_, _)
JoinDescriptions(inner, joiner) ==
    IF inner = <<>> THEN <<>>
    ELSE IF Len(inner) = 1 THEN DescriptionOf(inner[1])
    ELSE DescriptionOf(inner[1]) \o <<joiner>> \o JoinDescriptions(Tail(inner), joiner)

\* assertion.description of any assertion object.
DescriptionOf(a) ==
    CASE a.cls = "NotAssertion" -> <<"NOT (">> \o DescriptionOf(a.inner[1]) \o <<")">>
      [] a.cls = "CompositeAssertion" ->
           <<"(">> \o JoinDescriptions(a.inner,
                                       IF a.operator = "and" THEN " AND " ELSE " OR ")
                  \o <<")">>
      [] OTHER -> <<description(a.cls)>>

\* NotAssertion.check, line 365:  passed = not inner_result.passed
NegateKeepsMutant(passed) == passed

Negate(passed) == ~passed

\* NotAssertion.check, lines 367-369: the details of the result.  The
\* word inside "... as expected" is chosen by inner_result.passed, in the
\* branch taken when inner_result.passed is false.
not_details(inner_passed) ==
    IF ~inner_passed
      THEN (IF inner_passed THEN "Inner assertion failed as expected"
                            ELSE "Inner assertion passed as expected")
      ELSE "Inner assertion passed but should have failed"

RECURSIVE CheckAssertion(_, _)

\* A composite whose loop over the inner assertions leaves at the first
\* failed check.
InnerResultsShortCircuitMutant(inner, outcome) ==
    LET all == [i \in 1..Len(inner) |-> CheckAssertion(inner[i], outcome)]
        fails == {i \in 1..Len(inner) : ~all[i].passed}
        last == IF fails = {} THEN Len(inner)
                ELSE CHOOSE i \in fails : \A j \in fails : i <= j IN
    SubSeq(all, 1, last)

\* CompositeAssertion.check, line 104: every inner assertion is checked.
InnerResults(inner, outcome) ==
    [i \in 1..Len(inner) |-> CheckAssertion(inner[i], outcome)]

\* A join that keeps the first line only.
MessageLinesFirstOnlyMutant(results) ==
    IF results = <<>> THEN <<>> ELSE <<"\n", "- ">> \o Head(results).message

\* "\n".join(f"- {r.message}" for r in results)
RECURSIVE MessageLines(_)
MessageLines(results) ==
    IF results = <<>> THEN <<>>
    ELSE <<"\n", "- ">> \o Head(results).message \o MessageLines(Tail(results))

\* The first exception among the results, "none" without one.
RECURSIVE FirstRaised(_)
FirstRaised(results) ==
    IF results = <<>> THEN "none"
    ELSE IF Head(results).raised # "none" THEN Head(results).raised
    ELSE FirstRaised(Tail(results))

\* CompositeAssertion.check, lines 106-125.
CompositeVerdict(operator, n, results) ==
    LET failed == SelectSeq(results, LAMBDA r : ~r.passed)
        passing == SelectSeq(results, LAMBDA r : r.passed) IN
    IF operator = "and"
      THEN IF failed = <<>>
             THEN [passed |-> TRUE,
                   message |-> <<"All ", ToString(n), " assertions passed">>]
             ELSE [passed |-> FALSE,
                   message |-> <<ToString(Len(failed)), " assertion(s) failed:">>
                                  \o MessageLines(failed)]
      ELSE IF passing # <<>>
             THEN [passed |-> TRUE,
                   message |-> <<ToString(Len(passing)), " of ", ToString(n),
                                 " assertions passed">>]
             ELSE [passed |-> FALSE,
                   message |-> <<"None of ", ToString(n), " assertions passed:">>
                                  \o MessageLines(results)]

\* assertion.check(result) of any assertion object; an exception that
\* leaves an inner check leaves the outer one.
CheckAssertion(a, outcome) ==
    CASE a.cls = "NotAssertion" ->
           LET r == CheckAssertion(a.inner[1], outcome) IN
           IF r.raised # "none" THEN [NoVerdict EXCEPT !.raised = r.raised]
           ELSE [passed |-> Negate(r.passed),
                 message |-> <<"NOT (">> \o DescriptionOf(a.inner[1]) \o <<")">>,
                 details |-> not_details(r.passed),
                 raised |-> "none", evaluated |-> 1]
      [] a.cls = "CompositeAssertion" ->
           LET results == InnerResults(a.inner, outcome)
               v == CompositeVerdict(a.operator, Len(a.inner), results) IN
           IF FirstRaised(results) # "none"
             THEN [NoVerdict EXCEPT !.raised = FirstRaised(results),
                                    !.evaluated = Len(results)]
             ELSE [passed |-> v.passed, message |-> v.message, details |-> "",
                   raised |-> "none", evaluated |-> Len(results)]
      [] OTHER ->
           LET r == check(a.cls, outcome) IN
           [passed |-> r.passed, message |-> <<r.message>>, details |-> r.details,
            raised |-> r.raised, evaluated |-> 0]

\* The assertion objects a test builds: the leaves, composites of up to
\* MaxInner leaves, negations and double negations of leaves, negated
\* conjunctions of two leaves and disjunctions of two negated leaves.
Leaves == {Leaf(k) : k \in LeafKinds}
LeafLists == UNION {[1..k -> Leaves] : k \in 0..MaxInner}
AssertionTrees ==
    Leaves
      \cup {CompositeAssertion(op, l) : op \in {"and", "or"}, l \in LeafLists}
      \cup {NotAssertion(a) : a \in Leaves}
      \cup {NotAssertion(NotAssertion(a)) : a \in Leaves}
      \cup {NotAssertion(CompositeAssertion("and", <<a, b>>)) : a \in Leaves, b \in Leaves}
      \cup {CompositeAssertion("or", <<NotAssertion(a), NotAssertion(b)>>) :
               a \in Leaves, b \in Leaves}

\* The assertion lists a test may hand over: None, or up to MaxAssertions
\* assertions.
AssertionLists ==
    {NoAssertions} \cup
    {[given |-> TRUE, list |-> l] :
        l \in UNION {[1..k -> AssertionKinds] : k \in 0..MaxAssertions}}

CallInputs ==
    { [tool |-> "echo", arguments |-> "{message: Hello, MCP!}"],
      [tool |-> "fail", arguments |-> "None"] }
TimeoutInputs == {NoTimeout, 5}

(***************************************************************************)
(* MCPServerManager: pure parts.                                           *)
(***************************************************************************)
\* connected_servers: the registered names whose session is connected.
connected_servers(ss, reg) ==
    {n \in AllNames : reg[n] # NoSession /\ is_connected(ss[reg[n]])}

\* start_server, line 73.
AlreadyConnectedNeverMutant(ss, reg, n) == FALSE

AlreadyConnected(ss, reg, n) ==
    reg[n] # NoSession /\ is_connected(ss[reg[n]])

\* start_server, line 71: `async with lock` goes on only when nobody holds it.
LockFreeAlwaysMutant(owner, n) == TRUE

LockFree(owner, n) == owner[n] = NoTask

\* start_server, line 90:  self._sessions[server_name] = session
Register(reg, n, sid) == [reg EXCEPT ![n] = sid]

\* stop_server, line 167:  del self._sessions[server_name]
UnregisterKeepsMutant(reg, n) == reg

Unregister(reg, n) == [reg EXCEPT ![n] = NoSession]

\* get_session(server_name): the registered session if it is connected,
\* else None.
GetSessionRegisteredMutant(ss, reg, n) == reg[n]

get_session(ss, reg, n) ==
    IF reg[n] # NoSession /\ is_connected(ss[reg[n]]) THEN reg[n] ELSE NoSession

\* The orders in which a loop may visit the keys of a dict.
KeyOrders(S) ==
    {f \in [1..Cardinality(S) -> S] : \A i, j \in 1..Cardinality(S) : f[i] = f[j] => i = j}

RegisteredNames(reg) == {n \in AllNames : reg[n] # NoSession}

\* stop_all_servers, line 171:  server_names = list(self._sessions.keys())
StopAllNamesBatchOnlyMutant(reg) ==
    {n \in RegisteredNames(reg) : \E c \in Children : task[c].sid = reg[n]}

StopAllNames(reg) == RegisteredNames(reg)

\* asyncio.gather(..., return_exceptions=True) hands back, per server, the
\* session or the exception object.
RECURSIVE CollectFrom(_, _)
CollectFrom(results, n) ==
    IF n > NumServers THEN <<>>
    ELSE IF IsException(results[n])
           THEN <<[name |-> n, err |-> results[n]]>> \o CollectFrom(results, n + 1)
           ELSE CollectFrom(results, n + 1)

\* _start_servers_parallel, lines 136-140: the (name, error) pairs, in
\* configuration order.  results maps each name to what its task ended with.
CollectErrors(results) == CollectFrom(results, 1)

\* _start_servers_parallel, line 145: one message per collected error.
error_msgs(errors) == [i \in 1..Len(errors) |-> <<errors[i].name, ": ", errors[i].err>>]

(***************************************************************************)
(* stop_all_servers (lines 171-177) up to its next suspension: the names   *)
(* that need no await are handled at once (an unmanaged name is skipped, a *)
(* registered but disconnected session is deleted); the loop then suspends *)
(* in disconnect() of the first connected one, or ends.                    *)
(***************************************************************************)
RECURSIVE StopLoop(_, _, _)
StopLoop(ss, reg, todo) ==
    IF todo = <<>> THEN [reg |-> reg, todo |-> <<>>, name |-> NoName]
    ELSE LET n == Head(todo) IN
         IF reg[n] = NoSession THEN StopLoop(ss, reg, Tail(todo))
         ELSE IF is_connected(ss[reg[n]])
                THEN [reg |-> reg, todo |-> Tail(todo), name |-> n]
                ELSE StopLoop(ss, Unregister(reg, n), Tail(todo))

\* What the task does once the stop loop has ended: stop_all_servers
\* returns; the rollback of a parallel start raises the aggregated error.
AfterStopLoop(t) ==
    IF task[t].op = "start_all_par"
      THEN Ended(t, "ConnectionError", NoSession)
      ELSE Ended(t, "none", NoSession)

\* The task's record after running the stop loop over todo from (ss, reg).
StopProgress(t, ss, reg, todo) ==
    LET r == StopLoop(ss, reg, todo) IN
    IF r.name = NoName
      THEN [AfterStopLoop(t) EXCEPT !.todo = <<>>, !.name = NoName, !.sid = NoSession]
      ELSE [task[t] EXCEPT !.pc = "disc", !.name = r.name, !.sid = r.reg[r.name],
                            !.todo = r.todo]

\* The sequential loop going on to the next server whatever the last
\* start_server ended with.
StartServerEndedContinuesMutant(t, exc, ret) ==
    IF task[t].op = "start_all_seq"
      THEN IF task[t].todo = <<>> THEN Ended(t, exc, NoSession)
           ELSE [task[t] EXCEPT !.pc = "lock", !.name = Head(task[t].todo),
                                 !.todo = Tail(task[t].todo), !.sid = NoSession]
      ELSE Ended(t, exc, ret)

\* What start_server's caller does when start_server(name) ended in task t.
StartServerEnded(t, exc, ret) ==
    IF task[t].op = "start_all_seq"
      THEN IF exc # "none" THEN Ended(t, exc, NoSession)
           ELSE IF task[t].todo = <<>> THEN Ended(t, "none", NoSession)
           ELSE [task[t] EXCEPT !.pc = "lock", !.name = Head(task[t].todo),
                                 !.todo = Tail(task[t].todo), !.sid = NoSession]
      ELSE Ended(t, exc, ret)

ConnectOutcomes == {"ok", "timeout", "error"}
DisconnectOutcomes == {"closed", "close_error", "timeout"}

\* disconnect(), line 131: the release runs under asyncio.timeout, so the
\* deadline can always end the wait; a server that does not shut down on
\* its own leaves no other way out.
NoShutdownDeadlineMutant(s, o) == ~s.hung /\ o # "timeout"

ShutdownOutcome(s, o) == s.hung => o = "timeout"

\* An initialize, tools/list or tools/call request to a server that has
\* stopped responding (process alive, pipes open, silent) ends only when a
\* deadline fires.
Answers(s, kind) == s.hung => kind = "timeout"

\* stop_all_servers, line 176: `except Exception` around stop_server(name).
StopAllCatchesNothingMutant(exc) == FALSE

StopAllCatches(exc) == IsException(exc)

\* config.get_server_names(): the configured names in configuration order.
get_server_names == [i \in 1..NumServers |-> i]

\* config.get_server(name): the configuration of that name, or None.
GetServerAnyMutant(n) == n

get_server(n) == IF n \in Names THEN n ELSE NoName

\* get_default_session(): None without servers, else get_session of the
\* first configured one.
get_default_session(ss, reg) ==
    IF get_server_names = <<>> THEN NoSession
    ELSE get_session(ss, reg, get_server_names[1])

\* start_server, lines 80-84: the ValueError for an unconfigured name.
UnknownServerError(n) ==
    [server_name |-> n, available |-> get_server_names,
     lines |-> <<"Server '", "' not found in configuration. Available servers: ">>]

\* connect(), lines 113-121: the exception connect() raises after cleanup.
ConnectError(o) == IF o = "timeout" THEN "TimeoutError" ELSE "ConnectionError"

(***************************************************************************)
(* MCPClientSession.connect()                                              *)
(***************************************************************************)
\* A direct caller invokes connect() on session sid (lines 82-91, up to the
\* first await): a no-op when already connected.
SessionConnect(t, sid) ==
    /\ Ready(t)
    /\ sess[sid].name # NoName
    /\ IF is_connected(sess[sid])
         THEN /\ task' = [task EXCEPT ![t] =
                     [Ended(t, "none", NoSession) EXCEPT !.op = "connect", !.sid = sid]]
              /\ UNCHANGED sess
         ELSE /\ task' = [task EXCEPT ![t] =
                     [IdleTask EXCEPT !.op = "connect", !.pc = "stdio", !.sid = sid]]
              /\ sess' = [sess EXCEPT ![sid] = EnterConnect(@)]
    /\ UNCHANGED <<nsess, sessions, locks, lockOwner, history, initiated, cancels>>

\* One awaited step of connect() (lines 94-106) ends with outcome o: the
\* stdio_client context, the ClientSession context, then initialize().
\* After the last one connect() returns; inside start_server the session is
\* then registered and the lock released (lines 90-91).
ConnectStep(t, o) ==
    /\ task[t].pc \in ConnectPcs
    /\ task[t].pc = "init" => Answers(sess[task[t].sid], o)
    /\ LET sid == task[t].sid
           n == task[t].name IN
       IF o # "ok"
         THEN /\ task' = [task EXCEPT ![t].pc = "cleanup", ![t].exc = ConnectError(o)]
              /\ UNCHANGED <<sess, sessions, lockOwner>>
       ELSE IF task[t].pc = "stdio"
         THEN /\ sess' = [sess EXCEPT ![sid] = EnterStdio(@)]
              /\ task' = [task EXCEPT ![t].pc = "sessctx"]
              /\ UNCHANGED <<sessions, lockOwner>>
       ELSE IF task[t].pc = "sessctx"
         THEN /\ sess' = [sess EXCEPT ![sid] = EnterClientSession(@)]
              /\ task' = [task EXCEPT ![t].pc = "init"]
              /\ UNCHANGED <<sessions, lockOwner>>
       ELSE IF task[t].op = "connect"
         THEN /\ task' = [task EXCEPT ![t] = Ended(t, "none", NoSession)]
              /\ UNCHANGED <<sess, sessions, lockOwner>>
         ELSE /\ sessions' = Register(sessions, n, sid)
              /\ lockOwner' = [lockOwner EXCEPT ![n] = NoTask]
              /\ task' = [task EXCEPT ![t] = StartServerEnded(t, "none", sid)]
              /\ UNCHANGED sess
    /\ UNCHANGED <<nsess, locks, history, initiated, cancels>>

\* The except clauses of connect() (lines 113-121): _cleanup(), then raise;
\* start_server lets the exception through, releasing the lock.
ConnectCleanup(t) ==
    /\ task[t].pc = "cleanup"
    /\ sess' = [sess EXCEPT ![task[t].sid] = cleanup(@)]
    /\ IF task[t].op = "connect"
         THEN /\ task' = [task EXCEPT ![t] = Ended(t, task[t].exc, NoSession)]
              /\ UNCHANGED lockOwner
         ELSE /\ task' = [task EXCEPT ![t] = StartServerEnded(t, task[t].exc, NoSession)]
              /\ lockOwner' = [lockOwner EXCEPT ![task[t].name] = NoTask]
    /\ UNCHANGED <<nsess, sessions, locks, history, initiated, cancels>>

\* The task running connect() is cancelled from outside while suspended:
\* CancelledError is no Exception, so neither except clause of connect()
\* runs.  Cancelled inside _cleanup()'s aclose(), the stack is unwound but
\* lines 149-152 are skipped.
CancelConnect(t) ==
    /\ task[t].op = "connect"
    /\ task[t].pc \in ConnectPcs \cup {"cleanup"}
    /\ cancels < MaxCancels
    /\ cancels' = cancels + 1
    /\ sess' = [sess EXCEPT ![task[t].sid] =
                   IF task[t].pc = "cleanup" THEN AClose(@) ELSE @]
    /\ task' = [task EXCEPT ![t] = Ended(t, "CancelledError", NoSession)]
    /\ UNCHANGED <<nsess, sessions, locks, lockOwner, history, initiated>>

(***************************************************************************)
(* MCPClientSession.disconnect()                                           *)
(***************************************************************************)
\* disconnect() without the is_connected test of line 125.
SessionDisconnectUnguardedMutant(t, sid) ==
    /\ Ready(t)
    /\ sess[sid].name # NoName
    /\ task' = [task EXCEPT ![t] =
          [IdleTask EXCEPT !.op = "disconnect", !.pc = "disc", !.sid = sid]]
    /\ UNCHANGED <<sess, nsess, sessions, locks, lockOwner, history, initiated, cancels>>

\* A direct caller invokes disconnect() (lines 125-132, up to the await).
SessionDisconnect(t, sid) ==
    /\ Ready(t)
    /\ sess[sid].name # NoName
    /\ task' = [task EXCEPT ![t] =
          IF is_connected(sess[sid])
            THEN [IdleTask EXCEPT !.op = "disconnect", !.pc = "disc", !.sid = sid]
            ELSE [Ended(t, "none", NoSession) EXCEPT !.op = "disconnect", !.sid = sid]]
    /\ UNCHANGED <<sess, nsess, sessions, locks, lockOwner, history, initiated, cancels>>

\* disconnect() ends (lines 131-140).  "closed": aclose() finished in time;
\* "close_error": aclose() raised and _cleanup() swallowed it; "timeout":
\* the deadline fired, the cancelled aclose() unwound the exit stack, and
\* the except clause ran _cleanup() again (line 140).  In every case the
\* fields are dropped and disconnect() returns.  stop_server then deletes
\* the entry (line 167), which raises KeyError when another task deleted it
\* meanwhile; stop_all_servers logs what stop_server raises and goes on
\* with the names left, deleting at once those that need no await.
DisconnectStep(t, o) ==
    /\ task[t].pc = "disc"
    /\ o \in DisconnectOutcomes
    /\ ShutdownOutcome(sess[task[t].sid], o)
    /\ LET sid == task[t].sid
           n == task[t].name
           ss == [sess EXCEPT ![sid] = cleanup(@)]
           raised == IF task[t].op # "disconnect" /\ sessions[n] = NoSession
                       THEN "KeyError" ELSE "none"
           reg == IF raised = "none" /\ task[t].op # "disconnect"
                    THEN Unregister(sessions, n) ELSE sessions
           loops == /\ task[t].op \notin {"disconnect", "stop_server"}
                    /\ (raised = "none" \/ StopAllCatches(raised)) IN
       /\ sess' = ss
       /\ sessions' = IF loops THEN StopLoop(ss, reg, task[t].todo).reg ELSE reg
       /\ task' = [task EXCEPT ![t] =
             IF task[t].op = "disconnect"
               THEN [Ended(t, "none", NoSession) EXCEPT !.under = o]
             ELSE IF task[t].op = "stop_server"
               THEN Ended(t, raised, NoSession)
             ELSE IF raised # "none" /\ ~StopAllCatches(raised)
               THEN Ended(t, raised, NoSession)
             ELSE [StopProgress(t, ss, reg, task[t].todo) EXCEPT
                      !.logged = IF raised # "none"
                                   THEN Append(@, [name |-> n, err |-> raised])
                                   ELSE @]]
    /\ UNCHANGED <<nsess, locks, lockOwner, history, initiated, cancels>>

(***************************************************************************)
(* MCPClientSession.call_tool()                                            *)
(***************************************************************************)
StartupTimeout == 30      \* ServerConfig.startup_timeout = 30.0

\* session.call_tool, line 204.
session_effective_timeout(timeout) ==
    IF timeout # NoTimeout THEN timeout ELSE StartupTimeout

\* call_tool(), lines 209-230: what the session object is after the awaited
\* protocol call ended with `kind`.  No exit assigns a field of the session
\* or touches the exit stack.
CallFailureDisconnectsMutant(s, kind) == IF kind = "result" THEN s ELSE cleanup(s)

after_call_tool(s, kind) == s

\* call_tool() up to its await (lines 199-211): it raises ConnectionError at
\* once on a session that is not connected.
SessionCallTool(t, sid, in, timeout) ==
    /\ Ready(t)
    /\ sess[sid].name # NoName
    /\ LET c == [tool |-> in.tool, arguments |-> NormalizeArguments(in.arguments),
                 timeout |-> session_effective_timeout(timeout),
                 expect_error |-> FALSE, via |-> "call_tool",
                 assertions |-> NoAssertions] IN
       task' = [task EXCEPT ![t] =
          IF is_connected(sess[sid])
            THEN [IdleTask EXCEPT !.op = "call_tool", !.pc = "tool_wait", !.sid = sid,
                                  !.call = c]
            ELSE [IdleTask EXCEPT !.op = "call_tool", !.pc = "done", !.sid = sid,
                                  !.call = c, !.exc = "ConnectionError"]]
    /\ UNCHANGED <<sess, nsess, sessions, locks, lockOwner, history, initiated, cancels>>

\* The awaited protocol call ends (lines 211-230): the result is returned,
\* a deadline expiry is raised as TimeoutError, another exception passes.
SessionCallToolEnds(t, under) ==
    /\ task[t].pc = "tool_wait"
    /\ Answers(sess[task[t].sid], under.kind)
    /\ task' = [task EXCEPT ![t].pc = "done", ![t].under = under.kind,
                            ![t].exc = CASE under.kind = "result" -> "none"
                                         [] under.kind = "timeout" -> "TimeoutError"
                                         [] OTHER -> "Exception"]
    /\ sess' = [sess EXCEPT ![task[t].sid] = after_call_tool(@, under.kind)]
    /\ UNCHANGED <<nsess, sessions, locks, lockOwner, history, initiated, cancels>>

(***************************************************************************)
(* MCPClientSession.list_tools()                                           *)
(***************************************************************************)
\* What the awaited protocol request of list_tools can end with: line 164
\* awaits it with no deadline around it.
ListToolsOutcomes == {"result", "exception"}

\* list_tools() up to its await (lines 162-164): ConnectionError at once on
\* a session that is not connected.
SessionListTools(t, sid) ==
    /\ Ready(t)
    /\ sess[sid].name # NoName
    /\ task' = [task EXCEPT ![t] =
          IF is_connected(sess[sid])
            THEN [IdleTask EXCEPT !.op = "list_tools", !.pc = "list_wait", !.sid = sid]
            ELSE [IdleTask EXCEPT !.op = "list_tools", !.pc = "done", !.sid = sid,
                                  !.exc = "ConnectionError"]]
    /\ UNCHANGED <<sess, nsess, sessions, locks, lockOwner, history, initiated, cancels>>

\* The awaited request ends (lines 164-176): the tools are returned or the
\* exception of the protocol session passes through.
ListToolsEnds(t, o) ==
    /\ task[t].pc = "list_wait"
    /\ o \in ListToolsOutcomes
    /\ Answers(sess[task[t].sid], o)
    /\ task' = [task EXCEPT ![t].pc = "done", ![t].under = o,
                            ![t].exc = IF o = "result" THEN "none" ELSE "Exception"]
    /\ UNCHANGED <<sess, nsess, sessions, locks, lockOwner, history, initiated, cancels>>

\* The server process behind session sid stops responding.
ServerHangs(sid) ==
    /\ sess[sid].name # NoName
    /\ ~sess[sid].hung
    /\ sess' = [sess EXCEPT ![sid].hung = TRUE]
    /\ UNCHANGED <<nsess, sessions, locks, lockOwner, task, history, initiated, cancels>>

(***************************************************************************)
(* ToolCaller                                                              *)
(***************************************************************************)
\* call_and_assert, lines 196-211: the history entry is appended inside
\* call() (line 170), before the loop over the assertions is entered.
RecordOnReturnMutant(h, outcome, run) ==
    IF run.raised = "none" /\ run.failed = <<>> THEN RecordCall(h, outcome) ELSE h

RecordThenAssert(h, outcome, run) == RecordCall(h, outcome)

\* call() ends in task t (lines 134-171): the underlying call returned or
\* raised; a caught outcome is classified, appended to the history and
\* returned, an exception that no clause catches leaves call().  Inside
\* call_and_assert (lines 196-213) the assertions are then run on the
\* outcome and AssertionError is raised if any failed.
CallEnds(t, sid, c, under, msg) ==
    LET me == [IdleTask EXCEPT !.op = c.via, !.pc = "done", !.sid = sid, !.call = c,
                               !.under = under.kind] IN
    IF under.kind = "result" \/ Caught(under.kind)
      THEN LET out == OutcomeOf(c, under, msg)
               run == IF c.assertions.given /\ c.assertions.list # <<>>
                        THEN RunAssertions(c.assertions.list, out)
                        ELSE [failed |-> <<>>, checked |-> <<>>, raised |-> "none"] IN
           /\ history' = RecordThenAssert(history, out, run)
           /\ task' = [task EXCEPT ![t] =
                  IF run.raised # "none"
                    THEN [me EXCEPT !.outcome = out, !.checked = run.checked,
                                    !.exc = run.raised]
                  ELSE IF run.failed # <<>>
                    THEN [me EXCEPT !.outcome = out, !.checked = run.checked,
                                    !.exc = "AssertionError",
                                    !.detail = AssertionErrorOf(c.tool, run.failed)]
                    ELSE [me EXCEPT !.outcome = out, !.checked = run.checked]]
      ELSE /\ UNCHANGED history
           /\ task' = [task EXCEPT ![t] = [me EXCEPT !.exc = RaisedBy(under.kind)]]

\* call() up to the await of session.call_tool (lines 123-133 and
\* session.py 199-211).  On a session that is not connected
\* _ensure_connected raises at once and call() ends without suspending.
CallStarts(t, sid, c) ==
    /\ Ready(t)
    /\ sess[sid].name # NoName
    /\ Len(history) < MaxCalls
    /\ initiated' = Append(initiated, c.tool)
    /\ IF is_connected(sess[sid])
         THEN /\ task' = [task EXCEPT ![t] =
                     [IdleTask EXCEPT !.op = c.via, !.pc = "call_wait",
                                      !.sid = sid, !.call = c]]
              /\ UNCHANGED history
         ELSE CallEnds(t, sid, c, [kind |-> "exception", result |-> ErrorResult],
                       NotConnectedMessage)
    /\ UNCHANGED <<sess, nsess, sessions, locks, lockOwner, cancels>>

\* call(tool_name, arguments, timeout, expect_error)
CallBegin(t, sid, in, timeout, expect_error) ==
    CallStarts(t, sid,
        [tool |-> in.tool, arguments |-> NormalizeArguments(in.arguments),
         timeout |-> effective_timeout(timeout), expect_error |-> expect_error,
         via |-> "call", assertions |-> NoAssertions])

\* call_and_assert(tool_name, arguments, assertions, timeout), line 196:
\* call(tool_name, arguments, timeout), expect_error keeping its default.
CallAndAssertBegin(t, sid, in, timeout, assertions) ==
    CallStarts(t, sid,
        [tool |-> in.tool, arguments |-> NormalizeArguments(in.arguments),
         timeout |-> effective_timeout(timeout), expect_error |-> FALSE,
         via |-> "call_and_assert", assertions |-> assertions])

\* The awaited session.call_tool ends with `under`.
CallComplete(t, under) ==
    /\ task[t].pc = "call_wait"
    /\ Answers(sess[task[t].sid], under.kind)
    /\ CallEnds(t, task[t].sid, task[t].call, under, ServerErrorMessage)
    /\ sess' = [sess EXCEPT ![task[t].sid] = after_call_tool(@, under.kind)]
    /\ UNCHANGED <<nsess, sessions, locks, lockOwner, initiated, cancels>>

\* The test checks an assertion against the outcome its last call
\* returned:  assertion.check(result).
AssertionCheck(t, a) ==
    /\ task[t].pc = "done"
    /\ task[t].op = "call"
    /\ task[t].exc = "none"
    /\ LET v == CheckAssertion(a, task[t].outcome) IN
       task' = [task EXCEPT ![t] =
                  [task[t] EXCEPT !.op = "check", !.assertion = a, !.verdict = v,
                                  !.exc = v.raised]]
    /\ UNCHANGED <<sess, nsess, sessions, locks, lockOwner, history, initiated, cancels>>

\* The test reads result.text_content of the outcome its last call returned.
TextContentRead(t) ==
    /\ task[t].pc = "done"
    /\ task[t].exc = "none"
    /\ task[t].op \in {"call", "text_content"}
    /\ task[t].reads < MaxReads
    /\ LET r == text_content(task[t].text_cache, task[t].outcome) IN
       task' = [task EXCEPT ![t] =
                  [task[t] EXCEPT !.op = "text_content", !.read = r.value,
                                  !.text_cache = r.cache, !.reads = @ + 1]]
    /\ UNCHANGED <<sess, nsess, sessions, locks, lockOwner, history, initiated, cancels>>

(***************************************************************************)
(* wait_for_condition (tool_caller.py 225-259).  Time is counted in ticks. *)
(***************************************************************************)
MaxWaitTimeout == 3     \* longest timeout handed to wait_for_condition
MaxPollInterval == 2    \* longest poll_interval
MaxOversleep == 1       \* how much longer than asked asyncio.sleep may take


\* Lines 249-253: `except Exception: pass` around condition().
ConditionErrorPropagatesMutant(exc) == FALSE

ConditionErrorIgnored(exc) == IsException(exc)

\* Line 247: the loop goes on while the elapsed time is below the timeout.
WithinTimeout(w) == w.elapsed < w.timeout

\* wait_for_condition(condition, timeout, poll_interval), lines 245-247:
\* start_time is taken and the loop condition is up next.
WaitBegin(t, timeout, poll_interval) ==
    /\ Ready(t)
    /\ task' = [task EXCEPT ![t] =
          [IdleTask EXCEPT !.op = "wait_for_condition", !.pc = "wait_loop",
                           !.wait = [NoWait EXCEPT !.timeout = timeout,
                                                   !.poll_interval = poll_interval]]]
    /\ UNCHANGED <<sess, nsess, sessions, locks, lockOwner, history, initiated, cancels>>

\* Lines 247-255: within the timeout, condition() is called and returns
\* true or false or raises; true ends the wait, otherwise the sleep begins.
WaitEvaluate(t, e) ==
    /\ task[t].pc = "wait_loop"
    /\ WithinTimeout(task[t].wait)
    /\ LET w == [task[t].wait EXCEPT !.seen = @ \cup {e},
                                     !.evaluated_at = task[t].wait.elapsed] IN
       task' = [task EXCEPT ![t] =
          IF e = "true"
            THEN [task[t] EXCEPT !.pc = "done", !.wait = [w EXCEPT !.returned = "True"]]
          ELSE IF e = "raises" /\ ~ConditionErrorIgnored("ValueError")
            THEN [task[t] EXCEPT !.pc = "done", !.exc = "ValueError", !.wait = w]
            ELSE [task[t] EXCEPT !.pc = "wait_sleep", !.wait = w]]
    /\ UNCHANGED <<sess, nsess, sessions, locks, lockOwner, history, initiated, cancels>>

\* Lines 247 and 257: the timeout has elapsed, the loop ends, False.
WaitTimedOut(t) ==
    /\ task[t].pc = "wait_loop"
    /\ ~WithinTimeout(task[t].wait)
    /\ task' = [task EXCEPT ![t] =
          [task[t] EXCEPT !.pc = "done", !.wait.returned = "False"]]
    /\ UNCHANGED <<sess, nsess, sessions, locks, lockOwner, history, initiated, cancels>>

\* Line 255: asyncio.sleep(poll_interval) returns, poll_interval or a
\* little more later.
WaitWake(t, over) ==
    /\ task[t].pc = "wait_sleep"
    /\ task' = [task EXCEPT ![t] =
          [task[t] EXCEPT !.pc = "wait_loop",
                          !.wait.elapsed = @ + task[t].wait.poll_interval + over]]
    /\ UNCHANGED <<sess, nsess, sessions, locks, lockOwner, history, initiated, cancels>>

\* get_last_call()
GetLastCall(t) ==
    /\ Ready(t)
    /\ task' = [task EXCEPT ![t] =
          [IdleTask EXCEPT !.op = "get_last_call", !.pc = "done",
                           !.found = get_last_call(history)]]
    /\ UNCHANGED <<sess, nsess, sessions, locks, lockOwner, history, initiated, cancels>>

\* get_calls_for_tool(tool_name)
GetCallsForTool(t, tool_name) ==
    /\ Ready(t)
    /\ task' = [task EXCEPT ![t] =
          [IdleTask EXCEPT !.op = "get_calls_for_tool", !.pc = "done",
                           !.asked = tool_name,
                           !.found = get_calls_for_tool(history, tool_name)]]
    /\ UNCHANGED <<sess, nsess, sessions, locks, lockOwner, history, initiated, cancels>>

\* clear_history()
ClearHistory(t) ==
    /\ Ready(t)
    /\ history # <<>>
    /\ history' = <<>>
    /\ initiated' = <<>>
    /\ task' = [task EXCEPT ![t] = [IdleTask EXCEPT !.op = "clear_history", !.pc = "done"]]
    /\ UNCHANGED <<sess, nsess, sessions, locks, lockOwner, cancels>>

(***************************************************************************)
(* MCPServerManager                                                        *)
(***************************************************************************)
\* start_server(name) is called: the task goes for the per-name lock.
StartServerBegin(t, n) ==
    /\ Ready(t)
    /\ nsess < MaxSessions
    /\ task' = [task EXCEPT ![t] =
                   [IdleTask EXCEPT !.op = "start_server", !.pc = "lock", !.name = n]]
    /\ UNCHANGED <<sess, nsess, sessions, locks, lockOwner, history, initiated, cancels>>

\* Lines 67-88: the lock is created if absent and acquired; inside it, an
\* already connected session is returned at once, an unconfigured name
\* raises ValueError, otherwise a new session is constructed and connect()
\* runs to its first await.
StartServerLocked(t) ==
    /\ task[t].pc = "lock"
    /\ LET n == task[t].name IN
       /\ LockFree(lockOwner, n)
       /\ locks' = locks \cup {n}
       /\ IF AlreadyConnected(sess, sessions, n)
            THEN /\ task' = [task EXCEPT ![t] = StartServerEnded(t, "none", sessions[n])]
                 /\ UNCHANGED <<sess, nsess, lockOwner>>
          ELSE IF get_server(n) = NoName
            THEN /\ task' = [task EXCEPT ![t] =
                        [StartServerEnded(t, "ValueError", NoSession) EXCEPT
                            !.detail = UnknownServerError(n)]]
                 /\ UNCHANGED <<sess, nsess, lockOwner>>
            ELSE /\ nsess < MaxSessions
                 /\ nsess' = nsess + 1
                 /\ sess' = [sess EXCEPT ![nsess + 1] = EnterConnect(NewSession(get_server(n)))]
                 /\ lockOwner' = [lockOwner EXCEPT ![n] = t]
                 /\ task' = [task EXCEPT ![t].pc = "stdio", ![t].sid = nsess + 1]
    /\ UNCHANGED <<sessions, history, initiated, cancels>>

\* start_all_servers(parallel) (lines 109-118).  Sequential: the loop of
\* _start_servers_sequential begins with the first name.  Parallel: one
\* task per configured server is handed to asyncio.gather.
StartAllBegin(t, parallel) ==
    /\ Ready(t)
    /\ \A c \in Children : task[c].pc \in {"idle", "done"}
    /\ nsess + NumServers <= MaxSessions
    /\ IF NumServers = 0
         THEN task' = [task EXCEPT ![t] =
                  [IdleTask EXCEPT !.op = "start_all_seq", !.pc = "done"]]
       ELSE IF parallel
         THEN task' = [c \in TaskIds |->
                  IF c = t THEN [IdleTask EXCEPT !.op = "start_all_par", !.pc = "gather"]
                  ELSE IF c \in Children
                    THEN [IdleTask EXCEPT !.op = "child", !.pc = "lock",
                                          !.name = c - NumCallers]
                    ELSE task[c]]
         ELSE task' = [task EXCEPT ![t] =
                  [IdleTask EXCEPT !.op = "start_all_seq", !.pc = "lock", !.name = 1,
                                   !.todo = [i \in 1..(NumServers - 1) |-> i + 1]]]
    /\ UNCHANGED <<sess, nsess, sessions, locks, lockOwner, history, initiated, cancels>>

\* The parallel start raising its aggregated error without the rollback of
\* line 144.
GatherDoneNoRollbackMutant(t) ==
    /\ task[t].pc = "gather"
    /\ \A c \in Children : task[c].pc = "done"
    /\ LET errors == CollectErrors([n \in Names |-> task[ChildId(n)].exc]) IN
       task' = [task EXCEPT ![t] =
          IF errors = <<>> THEN Ended(t, "none", NoSession)
          ELSE [Ended(t, "ConnectionError", NoSession) EXCEPT !.errors = errors]]
    /\ UNCHANGED <<sess, nsess, sessions, locks, lockOwner, history, initiated, cancels>>

\* Lines 133-150: gather has every result.  With no error the sessions are
\* returned; otherwise stop_all_servers runs (over the registry's keys) and
\* then the aggregated ConnectionError is raised.
GatherDone(t) ==
    /\ task[t].pc = "gather"
    /\ \A c \in Children : task[c].pc = "done"
    /\ LET errors == CollectErrors([n \in Names |-> task[ChildId(n)].exc]) IN
       IF errors = <<>>
         THEN /\ task' = [task EXCEPT ![t] = Ended(t, "none", NoSession)]
              /\ UNCHANGED sessions
         ELSE \E order \in KeyOrders(StopAllNames(sessions)) :
                LET r == StopLoop(sess, sessions, order) IN
                /\ sessions' = r.reg
                /\ task' = [task EXCEPT ![t] =
                       [StopProgress(t, sess, sessions, order) EXCEPT !.errors = errors]]
    /\ UNCHANGED <<sess, nsess, locks, lockOwner, history, initiated, cancels>>

\* stop_server(name) up to its await (lines 159-165).
StopServerBegin(t, n) ==
    /\ Ready(t)
    /\ LET me == [IdleTask EXCEPT !.op = "stop_server", !.name = n] IN
       IF sessions[n] = NoSession
         THEN /\ task' = [task EXCEPT ![t] = [me EXCEPT !.pc = "done"]]
              /\ UNCHANGED sessions
       ELSE IF is_connected(sess[sessions[n]])
         THEN /\ task' = [task EXCEPT ![t] = [me EXCEPT !.pc = "disc", !.sid = sessions[n]]]
              /\ UNCHANGED sessions
         ELSE /\ task' = [task EXCEPT ![t] = [me EXCEPT !.pc = "done"]]
              /\ sessions' = Unregister(sessions, n)
    /\ UNCHANGED <<sess, nsess, locks, lockOwner, history, initiated, cancels>>

\* get_session(name) and get_default_session(): synchronous lookups.
GetSession(t, n) ==
    /\ Ready(t)
    /\ task' = [task EXCEPT ![t] =
          [IdleTask EXCEPT !.op = "get_session", !.pc = "done", !.name = n,
                           !.ret = get_session(sess, sessions, n)]]
    /\ UNCHANGED <<sess, nsess, sessions, locks, lockOwner, history, initiated, cancels>>

GetDefaultSession(t) ==
    /\ Ready(t)
    /\ task' = [task EXCEPT ![t] =
          [IdleTask EXCEPT !.op = "get_default_session", !.pc = "done",
                           !.ret = get_default_session(sess, sessions)]]
    /\ UNCHANGED <<sess, nsess, sessions, locks, lockOwner, history, initiated, cancels>>

\* stop_all_servers() up to its first await (lines 171-175).
StopAllBegin(t) ==
    /\ Ready(t)
    /\ \E order \in KeyOrders(StopAllNames(sessions)) :
         LET r == StopLoop(sess, sessions, order)
             me == [IdleTask EXCEPT !.op = "stop_all", !.server_names = order] IN
         /\ sessions' = r.reg
         /\ task' = [task EXCEPT ![t] =
               IF r.name = NoName THEN [me EXCEPT !.pc = "done"]
               ELSE [me EXCEPT !.pc = "disc", !.name = r.name, !.sid = r.reg[r.name],
                               !.todo = r.todo]]
    /\ UNCHANGED <<sess, nsess, locks, lockOwner, history, initiated, cancels>>

(***************************************************************************)
(* Specifications                                                          *)
(***************************************************************************)
TheSession == 1      \* the session a test drives directly
TheTest == 1         \* the task of the test (or fixture)

NoTasks == [t \in TaskIds |-> IdleTask]

\* One MCPClientSession, with a ToolCaller on it, driven by one test task;
\* the task may be cancelled from outside while it is inside connect().
InitSession ==
    /\ sess = [i \in SessionIds |-> IF i = TheSession THEN NewSession(1) ELSE NoSessionObject]
    /\ nsess = 1
    /\ sessions = [n \in AllNames |-> NoSession]
    /\ locks = {}
    /\ lockOwner = [n \in AllNames |-> NoTask]
    /\ task = NoTasks
    /\ history = <<>>
    /\ initiated = <<>>
    /\ cancels = 0

NextSession ==
    \/ SessionConnect(TheTest, TheSession)
    \/ \E o \in ConnectOutcomes : ConnectStep(TheTest, o)
    \/ ConnectCleanup(TheTest)
    \/ CancelConnect(TheTest)
    \/ SessionDisconnect(TheTest, TheSession)
    \/ \E o \in DisconnectOutcomes : DisconnectStep(TheTest, o)
    \/ \E in \in CallInputs, to \in TimeoutInputs :
          SessionCallTool(TheTest, TheSession, in, to)
    \/ \E u \in UnderlyingOutcomes : SessionCallToolEnds(TheTest, u)

SpecSession == InitSession /\ [][NextSession]_vars

\* One MCPClientSession driven by one test task against a server that may
\* stop responding.  The event loop resumes every coroutine whose awaited
\* operation can end, and a deadline that is armed fires: weak fairness of
\* the steps that end a wait.  Nothing obliges the test to call anything.
SessionCalls ==
    \/ SessionConnect(TheTest, TheSession)
    \/ SessionDisconnect(TheTest, TheSession)
    \/ \E in \in CallInputs, to \in TimeoutInputs :
          SessionCallTool(TheTest, TheSession, in, to)
    \/ SessionListTools(TheTest, TheSession)

SessionWaitEnds ==
    \/ \E o \in ConnectOutcomes : ConnectStep(TheTest, o)
    \/ ConnectCleanup(TheTest)
    \/ \E o \in DisconnectOutcomes : DisconnectStep(TheTest, o)
    \/ \E u \in UnderlyingOutcomes : SessionCallToolEnds(TheTest, u)
    \/ \E o \in ListToolsOutcomes : ListToolsEnds(TheTest, o)

NextSessionLive ==
    \/ SessionCalls
    \/ SessionWaitEnds
    \/ ServerHangs(TheSession)

SpecSessionLive ==
    InitSession /\ [][NextSessionLive]_vars /\ WF_vars(SessionWaitEnds)

\* A ToolCaller on one session, used by one test task that also connects
\* and disconnects the session.
NextCaller ==
    \/ SessionConnect(TheTest, TheSession)
    \/ \E o \in ConnectOutcomes : ConnectStep(TheTest, o)
    \/ ConnectCleanup(TheTest)
    \/ SessionDisconnect(TheTest, TheSession)
    \/ \E o \in DisconnectOutcomes : DisconnectStep(TheTest, o)
    \/ \E in \in CallInputs, to \in TimeoutInputs, e \in BOOLEAN :
          CallBegin(TheTest, TheSession, in, to, e)
    \/ \E u \in UnderlyingOutcomes : CallComplete(TheTest, u)
    \/ ClearHistory(TheTest)

SpecCaller == InitSession /\ [][NextCaller]_vars

\* A test that connects the session and makes its calls through
\* call_and_assert.
NextAssert ==
    \/ SessionConnect(TheTest, TheSession)
    \/ \E o \in ConnectOutcomes : ConnectStep(TheTest, o)
    \/ ConnectCleanup(TheTest)
    \/ \E in \in CallInputs, as \in AssertionLists :
          CallAndAssertBegin(TheTest, TheSession, in, NoTimeout, as)
    \/ \E u \in UnderlyingOutcomes : CallComplete(TheTest, u)
    \/ ClearHistory(TheTest)

SpecAssert == InitSession /\ [][NextAssert]_vars

\* A test that connects the session, makes one call at a time (clearing
\* the history before the next) and checks assertions against its outcome.
NextCheck ==
    \/ SessionConnect(TheTest, TheSession)
    \/ \E o \in ConnectOutcomes : ConnectStep(TheTest, o)
    \/ ConnectCleanup(TheTest)
    \/ /\ history = <<>>
       /\ \E in \in CallInputs, to \in TimeoutInputs, e \in BOOLEAN :
             CallBegin(TheTest, TheSession, in, to, e)
    \/ \E u \in UnderlyingOutcomes : CallComplete(TheTest, u)
    \/ \E a \in AssertionTrees : AssertionCheck(TheTest, a)
    \/ TextContentRead(TheTest)
    \/ ClearHistory(TheTest)

SpecCheck == InitSession /\ [][NextCheck]_vars

\* A test that makes calls, clears the history and queries it.
NextHistory ==
    \/ SessionConnect(TheTest, TheSession)
    \/ \E o \in ConnectOutcomes : ConnectStep(TheTest, o)
    \/ ConnectCleanup(TheTest)
    \/ \E in \in CallInputs, e \in BOOLEAN :
          CallBegin(TheTest, TheSession, in, NoTimeout, e)
    \/ \E u \in UnderlyingOutcomes : CallComplete(TheTest, u)
    \/ ClearHistory(TheTest)
    \/ GetLastCall(TheTest)
    \/ \E n \in {"echo", "fail", "missing"} : GetCallsForTool(TheTest, n)

SpecHistory == InitSession /\ [][NextHistory]_vars

\* A test that waits for conditions.  The event loop runs a task that can
\* run: the loop of wait_for_condition goes on and its sleep ends.
WaitStep ==
    \/ \E e \in {"true", "false", "raises"} : WaitEvaluate(TheTest, e)
    \/ WaitTimedOut(TheTest)
    \/ \E over \in 0..MaxOversleep : WaitWake(TheTest, over)

NextWait ==
    \/ \E to \in 0..MaxWaitTimeout, p \in 1..MaxPollInterval :
          WaitBegin(TheTest, to, p)
    \/ WaitStep

SpecWait == InitSession /\ [][NextWait]_vars /\ WF_vars(WaitStep)

\* The test's task connects the session while its other tasks use it.
SpecHandshake ==
    /\ InitSession
    /\ [][\/ SessionConnect(TheTest, TheSession)
          \/ \E o \in ConnectOutcomes : ConnectStep(TheTest, o)
          \/ ConnectCleanup(TheTest)
          \/ \E t \in Callers \ {TheTest} : SessionListTools(t, TheSession)
          \/ \E t \in Callers \ {TheTest}, o \in ListToolsOutcomes : ListToolsEnds(t, o)
          \/ \E t \in Callers \ {TheTest}, in \in CallInputs, to \in TimeoutInputs :
                SessionCallTool(t, TheSession, in, to)
          \/ \E t \in Callers \ {TheTest}, u \in UnderlyingOutcomes :
                SessionCallToolEnds(t, u)]_vars

\* An MCPServerManager driven by one task (the fixture), which calls its
\* operations one after another; a parallel start runs its gather tasks.
\* The task may also disconnect a session it got from the manager.
InitManager ==
    /\ sess = [i \in SessionIds |-> NoSessionObject]
    /\ nsess = 0
    /\ sessions = [n \in AllNames |-> NoSession]
    /\ locks = {}
    /\ lockOwner = [n \in AllNames |-> NoTask]
    /\ task = NoTasks
    /\ history = <<>>
    /\ initiated = <<>>
    /\ cancels = 0

ManagerSteps(t) ==
    \/ StartServerLocked(t)
    \/ \E o \in ConnectOutcomes : ConnectStep(t, o)
    \/ ConnectCleanup(t)
    \/ \E o \in DisconnectOutcomes : DisconnectStep(t, o)

NextManager ==
    \/ \E n \in AllNames : StartServerBegin(TheTest, n)
    \/ \E p \in BOOLEAN : StartAllBegin(TheTest, p)
    \/ GatherDone(TheTest)
    \/ \E n \in AllNames : StopServerBegin(TheTest, n)
    \/ StopAllBegin(TheTest)
    \/ \E sid \in SessionIds : SessionDisconnect(TheTest, sid)
    \/ \E n \in AllNames : GetSession(TheTest, n)
    \/ GetDefaultSession(TheTest)
    \/ \E t \in {TheTest} \cup Children : ManagerSteps(t)

SpecManager == InitManager /\ [][NextManager]_vars

\* Several tasks use one manager concurrently: each starts and stops
\* servers one by one or all at once; the fixture's task may also start
\* them all.
SpecRegistry ==
    /\ InitManager
    /\ [][\/ \E t \in Callers, n \in AllNames : StartServerBegin(t, n)
          \/ \E p \in BOOLEAN : StartAllBegin(TheTest, p)
          \/ GatherDone(TheTest)
          \/ \E t \in Callers, n \in AllNames : StopServerBegin(t, n)
          \/ \E t \in Callers : StopAllBegin(t)
          \/ \E t \in TaskIds : ManagerSteps(t)]_vars

\* Several tasks call start_server concurrently, each on the first or the
\* second configured server.
RaceNames == {n \in Names : n <= 2}

NextStartRace ==
    \/ \E t \in Callers, n \in RaceNames : StartServerBegin(t, n)
    \/ \E t \in Callers : StartServerLocked(t)
    \/ \E t \in Callers, o \in ConnectOutcomes : ConnectStep(t, o)
    \/ \E t \in Callers : ConnectCleanup(t)

SpecStartRace == InitManager /\ [][NextStartRace]_vars

\* A session whose connect() has returned.
ConnectedSession(n) == EnterClientSession(EnterStdio(EnterConnect(NewSession(n))))

\* The manager after start_all_servers has returned: every configured
\* server has a connected session in the registry (session n for name n).
InitStarted ==
    /\ sess = [i \in SessionIds |->
                 IF i \in Names THEN ConnectedSession(i) ELSE NoSessionObject]
    /\ nsess = NumServers
    /\ sessions = [n \in AllNames |-> IF n \in Names THEN n ELSE NoSession]
    /\ locks = Names
    /\ lockOwner = [n \in AllNames |-> NoTask]
    /\ task = NoTasks
    /\ history = <<>>
    /\ initiated = <<>>
    /\ cancels = 0

\* Several tasks stop servers of a started manager concurrently, one by
\* one or all at once.
NextStopRace ==
    \/ \E t \in Callers, n \in AllNames : StopServerBegin(t, n)
    \/ \E t \in Callers : StopAllBegin(t)
    \/ \E t \in Callers, o \in DisconnectOutcomes : DisconnectStep(t, o)

SpecStopRace == InitStarted /\ [][NextStopRace]_vars

(***************************************************************************)
(* Properties                                                              *)
(***************************************************************************)
\* The parallel start_all_servers of the fixture has ended.
ParallelEnded == task[TheTest].op = "start_all_par" /\ task[TheTest].pc = "done"
ParallelRaised == ParallelEnded /\ task[TheTest].exc = "ConnectionError"

\* What the gather task of server n ended with, and whether that is a failure.
ChildFailed(n) == task[ChildId(n)].exc \in {"TimeoutError", "ConnectionError"}
FailedServers == {n \in Names : ChildFailed(n)}

\* C1: parallel rollback.  When a parallel start_all_servers has ended, it
\* has raised the aggregated error exactly if at least one server failed to
\* connect, and once it has raised no registered server is connected.
ParallelRollback ==
    ParallelEnded =>
        /\ ParallelRaised <=> FailedServers # {}
        /\ ParallelRaised =>
              /\ connected_servers(sess, sessions) = {}
              /\ Len(task[TheTest].errors) >= 1

\* A parallel start in which one server connected and another failed has
\* raised: the one that connected is no longer registered.
ParallelRollbackWitness ==
    /\ ParallelRaised
    /\ \E n \in Names : /\ task[ChildId(n)].exc = "none"
                        /\ task[ChildId(n)].ret # NoSession
                        /\ sessions[n] = NoSession
    /\ FailedServers # {}

\* The sessions the batch's gather tasks constructed.
BatchSessions == {task[c].sid : c \in Children} \ {NoSession}

\* C2: after a failed parallel start_all_servers no session of the batch
\* that is absent from the registry is connected or holds a subprocess or
\* stream, every session whose connect failed has released everything, and
\* the error carries exactly one message per failed server.
NoLeakAfterFailedParallel ==
    ParallelRaised =>
        /\ \A i \in BatchSessions :
              (\A n \in AllNames : sessions[n] # i) =>
                  ~is_connected(sess[i]) /\ sess[i].held = 0 /\ ~sess[i].streams
        /\ \A n \in FailedServers :
              task[ChildId(n)].sid # NoSession =>
                  FullyDisconnected(sess[task[ChildId(n)].sid])
        /\ LET msgs == error_msgs(task[TheTest].errors) IN
           /\ Len(msgs) = Cardinality(FailedServers)
           /\ \A n \in FailedServers :
                 Cardinality({i \in 1..Len(msgs) : msgs[i][1] = n}) = 1

\* Every server of a parallel start failed to connect, each after its
\* session had been constructed; the error has a message for each.
NoLeakAfterFailedParallelWitness ==
    /\ ParallelRaised
    /\ FailedServers = Names
    /\ \A n \in Names : task[ChildId(n)].sid # NoSession
    /\ Len(task[TheTest].errors) = NumServers

\* The session objects constructed for server n.
SessionsOf(n) == {i \in 1..nsess : sess[i].name = n}
Connecting(t) == task[t].pc \in ConnectPcs \cup {"cleanup"}

\* C3: with any number of concurrent start_server calls, at most one
\* connect per name is in progress at any time; and once the first connect
\* for a name has succeeded, exactly one session (one subprocess) exists for
\* that name and every caller whose start_server(name) has ended got it.
SingleStartPerName ==
    \A n \in Names :
        /\ Cardinality({t \in Callers : task[t].name = n /\ Connecting(t)}) <= 1
        /\ (sessions[n] # NoSession /\ \A i \in SessionsOf(n) : sessions[n] <= i) =>
              /\ SessionsOf(n) = {sessions[n]}
              /\ sess[sessions[n]].held = 2
              /\ \A t \in Callers :
                    (task[t].pc = "done" /\ task[t].name = n) =>
                        task[t].exc = "none" /\ task[t].ret = sessions[n]

\* Two callers contend for one server: one is inside connect() holding the
\* lock while the other waits for it.
SingleStartPerNameWitness ==
    \E n \in Names : \E t, u \in Callers :
        /\ t # u
        /\ task[t].name = n /\ task[t].pc = "init" /\ lockOwner[n] = t
        /\ task[u].name = n /\ task[u].pc = "lock"

\* C4: call() never raises for a protocol-level error result, a timeout or
\* another exception of the underlying call_tool: every step in which a
\* call() ends returns an outcome and has appended exactly it to the history.
CallNeverRaises ==
    [][ (task'[TheTest].op = "call" /\ task'[TheTest].pc = "done"
            /\ task[TheTest] # task'[TheTest]) =>
          /\ task'[TheTest].exc = "none"
          /\ history' = Append(history, task'[TheTest].outcome)
          /\ task'[TheTest].outcome.name = task'[TheTest].call.tool ]_vars

\* A call whose underlying call_tool raised something other than a timeout
\* has ended, after an earlier call was recorded.
CallNeverRaisesWitness ==
    /\ task[TheTest].op = "call" /\ task[TheTest].pc = "done"
    /\ task[TheTest].under = "exception"
    /\ is_connected(sess[TheSession])
    /\ Len(history) = 2

HistoryNames == [i \in 1..Len(history) |-> history[i].name]

\* C5: history ordering.  The names in call_history are the tool names of
\* the calls made since the last clear_history, in call order (a call that
\* has not ended yet has no entry).
HistoryOrdering ==
    IF task[TheTest].pc = "call_wait"
      THEN HistoryNames = SubSeq(initiated, 1, Len(initiated) - 1)
      ELSE HistoryNames = initiated

\* Two calls of different tools have been recorded.
HistoryOrderingWitness ==
    /\ Len(history) = 2
    /\ history[1].name = "fail" /\ history[2].name = "echo"
    /\ Ready(TheTest)

\* The call of the test ended with a result of the underlying call_tool.
CallReturnedResult ==
    /\ task[TheTest].op = "call" /\ task[TheTest].pc = "done"
    /\ task[TheTest].under = "result"

\* C6: expect-error inversion.  For a call that completed without raising,
\* success is the negation of the result's error flag when expect_error is
\* false and the error flag itself when it is true; an expected error that
\* did not happen gives the fixed error message.
ExpectErrorInversion ==
    CallReturnedResult =>
        LET o == task[TheTest].outcome
            e == task[TheTest].call.expect_error IN
        /\ ~e => (o.success <=> ~o.result.isError)
        /\ e => (o.success <=> o.result.isError)
        /\ (e /\ ~o.result.isError) =>
              /\ ~o.success
              /\ o.error_message = [present |-> TRUE,
                                    text |-> <<"Expected error but tool succeeded">>]

\* An error was expected and the tool succeeded.
ExpectErrorInversionWitness ==
    /\ CallReturnedResult
    /\ task[TheTest].call.expect_error
    /\ ~task[TheTest].outcome.result.isError

\* C7: timeout classification.  A call whose underlying operation exceeded
\* its effective deadline returns (it does not raise) an outcome with
\* success = expect_error and a message naming the tool and the deadline.
TimeoutClassification ==
    (task[TheTest].op = "call" /\ task[TheTest].pc = "done"
        /\ task[TheTest].under = "timeout") =>
        LET o == task[TheTest].outcome
            c == task[TheTest].call IN
        /\ task[TheTest].exc = "none"
        /\ o.success = c.expect_error
        /\ o.error_message.present
        /\ o.error_message.text =
              <<"Tool call '", c.tool, "' timed out after ",
                IF c.timeout = 5 THEN "5s" ELSE "30.0s">>
        /\ history # <<>> /\ history[Len(history)] = o

\* A call made with expect_error and no timeout of its own timed out.
TimeoutClassificationWitness ==
    /\ task[TheTest].op = "call" /\ task[TheTest].pc = "done"
    /\ task[TheTest].under = "timeout"
    /\ task[TheTest].call.expect_error
    /\ task[TheTest].call.timeout = DefaultTimeout

\* The texts of the text-bearing blocks of a result.
TextsOf(result) ==
    {result.content[i].text : i \in {j \in 1..Len(result.content) : HasText(result.content[j])}}
Fragments(m) == {m.text[i] : i \in 1..Len(m.text)}

\* C8: a call made with expect_error=True whose result carries the error
\* flag has success = True and an error_message that is present and
\* contains the error text the tool returned.
ExpectedErrorKeepsMessage ==
    (CallReturnedResult /\ task[TheTest].call.expect_error
        /\ task[TheTest].outcome.result.isError) =>
        LET o == task[TheTest].outcome IN
        /\ o.success
        /\ o.error_message.present
        /\ TextsOf(o.result) \subseteq Fragments(o.error_message)

\* connect() called directly by the test has ended.
ConnectEnded == task[TheTest].op = "connect" /\ task[TheTest].pc = "done"

\* C9: connect() ends either normally with the session Connected or by
\* raising with the session fully Disconnected (not connected, no exit
\* stack, stream or subprocess held); no exit leaves a half-open state.
ConnectAllOrNothing ==
    ConnectEnded =>
        IF task[TheTest].exc = "none"
          THEN is_connected(sess[TheSession]) /\ sess[TheSession].held = 2
          ELSE FullyDisconnected(sess[TheSession])

\* C10: resources are released on every exit path of connect(), also when
\* the task is cancelled while connect() is suspended: after that exit
\* nothing is held and the session does not report itself connected.
CancelledConnectReleases ==
    (ConnectEnded /\ task[TheTest].exc = "CancelledError") =>
        /\ sess[TheSession].held = 0
        /\ ~is_connected(sess[TheSession])

\* disconnect() called directly by the test went through the release.
DisconnectReturned ==
    /\ task[TheTest].op = "disconnect" /\ task[TheTest].pc = "done"
    /\ task[TheTest].under \in DisconnectOutcomes

\* C11: disconnect() on a connected session always eventually returns, also
\* when the release does not finish within the shutdown timeout or never
\* finishes on its own; it returns without raising and the session is then
\* Disconnected, holding nothing.
DisconnectAlwaysReturns ==
    /\ [](DisconnectReturned =>
            /\ task[TheTest].exc = "none"
            /\ FullyDisconnected(sess[TheSession]))
    /\ (task[TheTest].op = "disconnect" /\ task[TheTest].pc = "disc")
          ~> DisconnectReturned

\* disconnect() returned from a server that does not shut down on its own:
\* the deadline fired and the cleanup was forced.
DisconnectAlwaysReturnsWitness ==
    /\ DisconnectReturned
    /\ task[TheTest].under = "timeout"
    /\ sess[TheSession].hung

\* C12: every boundary-crossing operation of the session (connect,
\* disconnect, call_tool, list_tools) is bounded by a deadline: once
\* started it eventually ends, whatever the server does.
EveryOperationBounded ==
    (task[TheTest].pc \notin {"idle", "done"}) ~> (task[TheTest].pc = "done")

\* C13: idempotent disconnect.  disconnect() called on a session that is not
\* connected (in particular right after a disconnect() that returned)
\* returns at once without raising, releases nothing and changes no field of
\* the session; after any disconnect() that returned the session is not
\* connected.
IdempotentDisconnect ==
    [][ /\ (task'[TheTest].op = "disconnect" /\ Ready(TheTest)
              /\ task'[TheTest] # task[TheTest] /\ ~is_connected(sess[TheSession])) =>
            /\ task'[TheTest].pc = "done"
            /\ task'[TheTest].exc = "none"
            /\ sess' = sess
        /\ (task'[TheTest].op = "disconnect" /\ task'[TheTest].pc = "done") =>
            ~is_connected(sess'[TheSession]) ]_vars

\* A disconnect() that found the session not connected has returned; the
\* session had been used before (its stack was closed by an earlier
\* disconnect or cleanup, nothing is held).
IdempotentDisconnectWitness ==
    /\ task[TheTest].op = "disconnect" /\ task[TheTest].pc = "done"
    /\ task[TheTest].under = "none"
    /\ FullyDisconnected(sess[TheSession])

\* The sessions that are being connected: they have an exit stack and are
\* not in the registry.
SessionsInConnect ==
    {i \in 1..nsess : sess[i].stack /\ \A n \in AllNames : sessions[n] # i}

\* C14: sequential start_all_servers connects the configured servers one at
\* a time in configuration order: while it works on server k every earlier
\* server is registered and connected, the servers still to come are
\* k+1.. in order, and at most one session is being connected.  When it has
\* failed, the failing server's session is the last one ever constructed
\* (no later server was started); when it has returned, all are connected.
SequentialStartInOrder ==
    LET t == task[TheTest] IN
    (t.op = "start_all_seq" /\ t.name # NoName) =>
        /\ t.todo = [i \in 1..(NumServers - t.name) |-> t.name + i]
        /\ Cardinality(SessionsInConnect) <= 1
        /\ t.pc # "done" => \A m \in Names : m < t.name => AlreadyConnected(sess, sessions, m)
        /\ (t.pc = "done" /\ t.exc # "none") =>
              /\ t.sid # NoSession /\ nsess = t.sid
              /\ sess[t.sid].name = t.name
              /\ \A m \in Names : m < t.name => AlreadyConnected(sess, sessions, m)
        /\ (t.pc = "done" /\ t.exc = "none") =>
              \A m \in Names : AlreadyConnected(sess, sessions, m)

\* A sequential start failed on the first server: the second one was never
\* started.
SequentialStartInOrderWitness ==
    LET t == task[TheTest] IN
    /\ t.op = "start_all_seq" /\ t.pc = "done"
    /\ t.exc \in {"TimeoutError", "ConnectionError"}
    /\ t.name = 1 /\ t.todo # <<>>
    /\ \A i \in 1..nsess : sess[i].name = 1

\* C15: racing stop_server calls on one managed, connected server are
\* benign: every stop_server(name) that has ended raised nothing, the
\* session is Disconnected and name is no longer in the registry.
RacingStopsBenign ==
    \A t \in Callers :
        (task[t].op = "stop_server" /\ task[t].pc = "done") =>
            /\ task[t].exc = "none"
            /\ sessions[task[t].name] = NoSession
            /\ task[t].name \in Names => ~is_connected(sess[task[t].name])

\* C17: stop_all_servers attempts to stop every server that was managed
\* when it was called: when it has ended it raised nothing, whatever the
\* stop of a single server raised was logged, and every server of its
\* snapshot is out of the registry with its session Disconnected.
StopAllStopsEveryServer ==
    \A t \in Callers :
        (task[t].op = "stop_all" /\ task[t].pc = "done") =>
            /\ task[t].exc = "none"
            /\ \A i \in 1..Len(task[t].server_names) :
                  LET n == task[t].server_names[i] IN
                  /\ sessions[n] = NoSession
                  /\ ~is_connected(sess[n])
            /\ \A i \in 1..Len(task[t].logged) :
                  \E j \in 1..Len(task[t].server_names) :
                      task[t].logged[i].name = task[t].server_names[j]

\* A stop_all_servers over all servers has ended after the stop of the
\* first server of its snapshot raised (a concurrent stop_server had removed
\* the entry): the error was logged and the later server was still stopped.
StopAllStopsEveryServerWitness ==
    \E t \in Callers :
        /\ task[t].op = "stop_all" /\ task[t].pc = "done"
        /\ Len(task[t].server_names) = NumServers
        /\ task[t].logged # <<>>
        /\ task[t].logged[1] = [name |-> task[t].server_names[1], err |-> "KeyError"]
        /\ task[t].under = "none"
        /\ \A n \in Names : ~is_connected(sess[n])

\* C16: stop_server(name) changes nothing and raises nothing when name is
\* not managed; otherwise, when it returns, the session that was registered
\* for name is not connected and name is no key of the registry; no step of
\* it touches another registry entry or another session.
StopServerContract ==
    [][ LET t == task[TheTest]
            u == task'[TheTest] IN
        (u.op = "stop_server" /\ u # t) =>
            /\ \A m \in AllNames : m # u.name => sessions'[m] = sessions[m]
            /\ \A i \in SessionIds : i # sessions[u.name] => sess'[i] = sess[i]
            /\ (Ready(TheTest) /\ sessions[u.name] = NoSession) =>
                  /\ u.pc = "done" /\ u.exc = "none"
                  /\ sessions' = sessions /\ sess' = sess
            /\ u.pc = "done" =>
                  /\ u.exc = "none"
                  /\ sessions'[u.name] = NoSession
                  /\ sessions[u.name] # NoSession =>
                        ~is_connected(sess'[sessions[u.name]]) ]_vars

\* stop_server disconnected and removed one server while another one
\* stayed registered and connected.
StopServerContractWitness ==
    LET t == task[TheTest] IN
    /\ t.op = "stop_server" /\ t.pc = "done" /\ t.sid # NoSession
    /\ FullyDisconnected(sess[t.sid])
    /\ sessions[t.name] = NoSession
    /\ \E m \in Names : m # t.name /\ AlreadyConnected(sess, sessions, m)

\* C18: get_session and get_default_session never raise.  get_session(name)
\* returns the session registered for name exactly when one is registered
\* and connected, else None; get_default_session returns what get_session
\* gives for the first configured server, None when there is no server.
SessionLookup ==
    LET t == task[TheTest]
        live(n) == sessions[n] # NoSession /\ sess[sessions[n]].session IN
    /\ (t.op = "get_session" /\ t.pc = "done") =>
          /\ t.exc = "none"
          /\ t.ret # NoSession <=> live(t.name)
          /\ t.ret # NoSession => t.ret = sessions[t.name]
    /\ (t.op = "get_default_session" /\ t.pc = "done") =>
          /\ t.exc = "none"
          /\ NumServers = 0 => t.ret = NoSession
          /\ NumServers > 0 => /\ t.ret # NoSession <=> live(1)
                               /\ t.ret # NoSession => t.ret = sessions[1]

\* get_session returned None for a server that is registered but whose
\* session is not connected.
SessionLookupWitness ==
    LET t == task[TheTest] IN
    /\ t.op = "get_session" /\ t.pc = "done"
    /\ sessions[t.name] # NoSession
    /\ t.ret = NoSession

\* C19: start_server(name) for a name that is not configured raises the
\* unknown-server error carrying the configured names; that step constructs
\* no session, starts no connect and leaves the registry as it was.
UnknownServerRejected ==
    [][ LET t == task[TheTest]
            u == task'[TheTest] IN
        (t.op = "start_server" /\ t.pc = "lock" /\ t.name \notin Names /\ u # t) =>
            /\ u.pc = "done" /\ u.exc = "ValueError"
            /\ u.detail.server_name = t.name
            /\ u.detail.available = [i \in 1..NumServers |-> i]
            /\ u.sid = NoSession
            /\ nsess' = nsess /\ sess' = sess /\ sessions' = sessions ]_vars

\* start_server of an unconfigured name was rejected while a configured
\* server was registered and connected.
UnknownServerRejectedWitness ==
    LET t == task[TheTest] IN
    /\ t.op = "start_server" /\ t.pc = "done" /\ t.exc = "ValueError"
    /\ t.name = UnknownName
    /\ \E m \in Names : AlreadyConnected(sess, sessions, m)

\* Whether an assertion of the given class holds of an outcome.
Holds(a, o) ==
    CASE a = "SuccessAssertion" -> o.success
      [] a = "ErrorAssertion" -> ~o.success
      [] a = "CustomAssertion" -> FALSE
      [] OTHER -> \E i \in 1..Len(o.result.content) : o.result.content[i] = TextBlock("boom")

\* C20: call_and_assert makes the call with expect_error = False and
\* records it; it checks every assertion of the list once, in order,
\* whether or not an earlier one failed; it raises one AssertionError iff at
\* least one assertion failed, whose message names the tool and then every
\* failed assertion in list order; with no failure (or an empty or absent
\* list) it returns the outcome.
CallAndAssertAggregates ==
    LET t == task[TheTest]
        o == t.outcome
        as == t.call.assertions.list
        failing == SelectSeq(as, LAMBDA a : ~Holds(a, o)) IN
    (t.op = "call_and_assert" /\ t.pc = "done") =>
        /\ ~t.call.expect_error
        /\ o.success <=> (t.under = "result" /\ ~o.result.isError)
        /\ history # <<>> /\ history[Len(history)] = o
        /\ t.checked = as
        /\ t.exc \in {"none", "AssertionError"}
        /\ t.exc = "AssertionError" <=> failing # <<>>
        /\ t.exc = "AssertionError" =>
              /\ Len(t.detail.lines) = 1 + Len(failing)
              /\ t.detail.lines[1][2] = t.call.tool
              /\ \A k \in 1..Len(failing) :
                    t.detail.lines[k + 1][2] = description(failing[k])
        /\ t.exc = "none" => t.detail = NoDetail

\* A call_and_assert whose first and last assertion failed: both are named
\* in the one error, in list order.
CallAndAssertAggregatesWitness ==
    LET t == task[TheTest] IN
    /\ t.op = "call_and_assert" /\ t.pc = "done" /\ t.exc = "AssertionError"
    /\ t.call.assertions.list = <<"SuccessAssertion", "ResultContainsAssertion">>
    /\ Len(t.detail.lines) = 3
    /\ t.detail.lines[2][2] = "Tool call succeeds"
    /\ t.detail.lines[3][2] = "Result contains 'boom'"

\* The task of the test after assertion.check(result) on a call's outcome.
Checked == task[TheTest].op = "check" /\ task[TheTest].pc = "done"

\* C21: for every list of inner assertions and every outcome, a
\* CompositeAssertion with operator "and" passes iff every inner check
\* passes, one with operator "or" passes iff at least one inner check
\* passes, and every inner assertion of the list is checked, whatever the
\* earlier ones returned.
CompositePassesIffInner ==
    LET t == task[TheTest]
        a == t.assertion
        inner(i) == CheckAssertion(a.inner[i], t.outcome) IN
    (Checked /\ a.cls = "CompositeAssertion" /\ t.exc = "none") =>
        /\ a.operator = "and" =>
              (t.verdict.passed <=> \A i \in 1..Len(a.inner) : inner(i).passed)
        /\ a.operator = "or" =>
              (t.verdict.passed <=> \E i \in 1..Len(a.inner) : inner(i).passed)
        /\ t.verdict.evaluated = Len(a.inner)

\* An OR of two assertions whose first check fails and whose second passes:
\* both were checked and the composite passes.
CompositePassesIffInnerWitness ==
    LET t == task[TheTest]
        a == t.assertion IN
    /\ Checked /\ a.cls = "CompositeAssertion" /\ a.operator = "or"
    /\ Len(a.inner) = 2
    /\ ~CheckAssertion(a.inner[1], t.outcome).passed
    /\ CheckAssertion(a.inner[2], t.outcome).passed
    /\ t.verdict.passed /\ t.verdict.evaluated = 2

\* AND of Success() and Duration(max=5), checked against an outcome that is
\* neither a success nor within five seconds.
BothInnerFail ==
    LET t == task[TheTest] IN
    /\ Checked
    /\ t.assertion = CompositeAssertion("and", <<Leaf("SuccessAssertion"),
                                                  Leaf("DurationAssertion")>>)
    /\ ~t.outcome.success
    /\ t.outcome.duration_seconds > MaxSeconds

MessageFragments(v) == {v.message[i] : i \in 1..Len(v.message)}

\* C22 as stated: when both inner checks of AND(Success(), Duration(5))
\* fail, the composite fails and its failure message contains the
\* description of each of the two inner assertions.
CompositeMessageHasDescriptions ==
    BothInnerFail =>
        /\ ~task[TheTest].verdict.passed
        /\ description("SuccessAssertion") \in MessageFragments(task[TheTest].verdict)
        /\ description("DurationAssertion") \in MessageFragments(task[TheTest].verdict)

\* C22 as amended: when both inner checks of AND(Success(), Duration(5))
\* fail, the composite fails and its failure message is the count of
\* failed checks followed by the message of each failed inner check's
\* result, one per line, in list order.
CompositeMessageHasInnerMessages ==
    BothInnerFail =>
        /\ ~task[TheTest].verdict.passed
        /\ task[TheTest].verdict.message =
              <<"2", " assertion(s) failed:",
                "\n", "- ", "Tool call should succeed",
                "\n", "- ", "Tool call should complete within 5s">>

\* The call timed out after the default thirty seconds and the composite
\* of Success() and Duration(5) was checked against its outcome.
CompositeMessageHasInnerMessagesWitness ==
    /\ BothInnerFail
    /\ task[TheTest].under = "timeout"
    /\ task[TheTest].outcome.duration_seconds = DefaultTimeout
    /\ ~task[TheTest].verdict.passed

\* C23: an exception raised by the predicate of a CustomAssertion does not
\* leave check(): check() returns a failed result that carries the text of
\* the exception.  So a call_and_assert whose list holds such an assertion
\* raises the one AssertionError, in which that assertion is one failed
\* line, and every other assertion of the list is still checked.
PredicateErrorContained ==
    LET t == task[TheTest]
        as == t.call.assertions.list
        r == check("CustomAssertion", t.outcome)
        customs == {i \in 1..Len(as) : as[i] = "CustomAssertion"}
        lines == t.detail.lines
        customLines == {k \in 2..Len(lines) : lines[k][2] = description("CustomAssertion")} IN
    (t.op = "call_and_assert" /\ t.pc = "done" /\ customs # {}) =>
        /\ r.raised = "none" /\ ~r.passed /\ r.details = PredicateError
        /\ t.exc = "AssertionError"
        /\ t.checked = as
        /\ Cardinality(customLines) = Cardinality(customs)
        /\ \A k \in customLines :
              lines[k] = <<"- ", "predicate holds", ": ",
                           "Assertion check failed with error: bad predicate">>
        /\ \A i \in 1..Len(as) :
              (as[i] # "CustomAssertion" /\ ~Holds(as[i], t.outcome)) =>
                 \E k \in 2..Len(lines) : lines[k][2] = description(as[i])

\* A list whose first assertion has a raising predicate and whose second
\* assertion fails too: the error names both.
PredicateErrorContainedWitness ==
    LET t == task[TheTest] IN
    /\ t.op = "call_and_assert" /\ t.pc = "done" /\ t.exc = "AssertionError"
    /\ t.call.assertions.list = <<"CustomAssertion", "SuccessAssertion">>
    /\ Len(t.detail.lines) = 3
    /\ t.detail.lines[2][2] = "predicate holds"
    /\ t.detail.lines[3][2] = "Tool call succeeds"

\* The outcome carries an error message: one that is present and not empty.
HasErrorMessage(o) ==
    o.error_message.present /\ o.error_message.text \notin {<<>>, <<"">>}

ErrorAssertionPassesOnFailedCall ==
    LET t == task[TheTest] IN
    (/\ Checked /\ t.assertion = Leaf("ErrorAssertion")
     /\ \/ t.under \in {"timeout", "exception"}
        \/ t.under = "result" /\ t.outcome.result.isError) =>
        t.verdict.passed

\* C26: NotAssertion(a).check(r).passed is the negation of
\* a.check(r).passed for every inner assertion a and outcome r; so
\* Not(Not(a)) agrees with a, and Not(AND(a, b)) agrees with
\* OR(Not(a), Not(b)).
NotInverts ==
    LET t == task[TheTest]
        a == t.assertion
        o == t.outcome
        in == a.inner[1] IN
    (Checked /\ a.cls = "NotAssertion" /\ t.exc = "none") =>
        /\ t.verdict.passed = ~CheckAssertion(in, o).passed
        /\ in.cls = "NotAssertion" =>
              t.verdict.passed = CheckAssertion(in.inner[1], o).passed
        /\ (in.cls = "CompositeAssertion" /\ in.operator = "and" /\ Len(in.inner) = 2) =>
              t.verdict.passed =
                 CheckAssertion(CompositeAssertion("or",
                                   <<NotAssertion(in.inner[1]), NotAssertion(in.inner[2])>>),
                                o).passed

\* Not(AND(Success, Duration)) checked against a failed outcome that was
\* quick: the conjunction fails on its first part only, the negation passes.
NotInvertsWitness ==
    LET t == task[TheTest] IN
    /\ Checked
    /\ t.assertion = NotAssertion(CompositeAssertion("and",
                        <<Leaf("SuccessAssertion"), Leaf("DurationAssertion")>>))
    /\ ~t.outcome.success
    /\ t.outcome.duration_seconds <= MaxSeconds
    /\ t.verdict.passed

\* The texts of the text-bearing blocks of the result, in block order.
BlockTexts(o) == SelectSeq(o.result.content, HasText)

\* C27: text_content of an outcome is the text of every text-bearing
\* block of the result, in the order of the blocks, each once, with a
\* single newline between two neighbours; it is the empty string when the
\* result has no content or no text-bearing block; and a second read
\* returns what the first returned.
TextContentJoinsBlocks ==
    /\ [](LET t == task[TheTest]
              texts == BlockTexts(t.outcome) IN
          (t.op = "text_content" /\ t.pc = "done") =>
             /\ texts = <<>> => t.read = <<>>
             /\ texts # <<>> =>
                   /\ Len(t.read) = 2 * Len(texts) - 1
                   /\ \A k \in 1..Len(texts) : t.read[2 * k - 1] = texts[k].text
                   /\ \A k \in 1..(Len(texts) - 1) : t.read[2 * k] = "\n")
    /\ [][(task[TheTest].op = "text_content" /\ task'[TheTest].op = "text_content")
            => task'[TheTest].read = task[TheTest].read]_vars

\* The second read of a result with two text blocks: both texts with one
\* newline between them.
TextContentJoinsBlocksWitness ==
    LET t == task[TheTest] IN
    /\ t.op = "text_content" /\ t.reads = 2
    /\ Len(BlockTexts(t.outcome)) = 2
    /\ t.read = <<"Echo: ", "\n", "Hello, MCP!">>

\* C28: when the underlying call_tool raises an exception that is not a
\* timeout (the not-connected error of a session that is not connected
\* included), call() does not raise: it returns an outcome whose success
\* equals expect_error and whose error message is "Tool call failed: "
\* followed by the text of the exception, and appends it to the history.
ExceptionClassification ==
    (task[TheTest].op = "call" /\ task[TheTest].pc = "done"
        /\ task[TheTest].under = "exception") =>
        LET o == task[TheTest].outcome
            c == task[TheTest].call IN
        /\ task[TheTest].exc = "none"
        /\ o.success = c.expect_error
        /\ o.name = c.tool
        /\ o.result.isError /\ o.result.content = <<>>
        /\ o.error_message.present
        /\ o.error_message.text =
              IF is_connected(sess[TheSession])
                THEN <<"Tool call failed: ", "McpError">>
                ELSE <<"Tool call failed: ", "MCP server '", "name", "' is not connected">>
        /\ history # <<>> /\ history[Len(history)] = o

\* A call with expect_error=True on a session that is not connected.
ExceptionClassificationWitness ==
    /\ task[TheTest].op = "call" /\ task[TheTest].pc = "done"
    /\ task[TheTest].under = "exception"
    /\ ~is_connected(sess[TheSession])
    /\ task[TheTest].call.expect_error
    /\ task[TheTest].outcome.success
    /\ Len(history) = 1

Waiting == task[TheTest].op = "wait_for_condition" /\ task[TheTest].pc # "done"
WaitEnded == task[TheTest].op = "wait_for_condition" /\ task[TheTest].pc = "done"

\* C29: wait_for_condition evaluates the condition only while the timeout
\* has not elapsed and sleeps at least poll_interval between two
\* evaluations; it returns True iff an evaluation returned true, False only
\* once the timeout has elapsed; an evaluation that raises counts as not
\* met and never leaves wait_for_condition; and with a positive poll
\* interval every wait ends.
WaitForConditionConverges ==
    /\ [](LET w == task[TheTest].wait IN
          /\ task[TheTest].op = "wait_for_condition" =>
                /\ task[TheTest].exc = "none"
                /\ w.evaluated_at < w.timeout
          /\ WaitEnded =>
                /\ w.returned \in {"True", "False"}
                /\ w.returned = "True" <=> "true" \in w.seen
                /\ w.returned = "False" => w.elapsed >= w.timeout)
    /\ [][(task[TheTest].pc = "wait_sleep" /\ task'[TheTest].pc # "wait_sleep") =>
            /\ task'[TheTest].pc = "wait_loop"
            /\ task'[TheTest].wait.elapsed >=
                  task[TheTest].wait.elapsed + task[TheTest].wait.poll_interval]_vars
    /\ [][(Waiting /\ task'[TheTest].wait.evaluated_at # task[TheTest].wait.evaluated_at
             /\ task[TheTest].wait.evaluated_at >= 0) =>
            task'[TheTest].wait.evaluated_at >=
               task[TheTest].wait.evaluated_at + task[TheTest].wait.poll_interval]_vars
    /\ (Waiting /\ task[TheTest].wait.poll_interval > 0) ~> WaitEnded

\* A wait whose condition raised, then returned false, and which returned
\* False after the timeout had elapsed.
WaitForConditionConvergesWitness ==
    /\ WaitEnded
    /\ task[TheTest].wait.seen = {"false", "raises"}
    /\ task[TheTest].wait.returned = "False"
    /\ task[TheTest].wait.timeout = MaxWaitTimeout

\* How many calls of the tool were made since the last clear_history.
RECURSIVE CountOf(_, _)
CountOf(names, n) ==
    IF names = <<>> THEN 0
    ELSE (IF Head(names) = n THEN 1 ELSE 0) + CountOf(Tail(names), n)

\* The positions of the history whose entry is for the tool.
PositionsOf(n) == {i \in 1..Len(history) : history[i].name = n}

\* C30: after any sequence of calls and clear_history: get_last_call()
\* returns the outcome of the latest call made since the last
\* clear_history, or nothing when there is none; get_calls_for_tool(name)
\* returns exactly the history entries of that name, in history order;
\* clear_history leaves the history empty.
HistoryQueries ==
    /\ [](LET t == task[TheTest] IN
          /\ (t.op = "get_last_call" /\ t.pc = "done") =>
                /\ initiated = <<>> => t.found = <<>>
                /\ initiated # <<>> =>
                      /\ t.found = <<history[Len(history)]>>
                      /\ t.found[1].name = initiated[Len(initiated)]
          /\ (t.op = "get_calls_for_tool" /\ t.pc = "done") =>
                /\ Len(t.found) = CountOf(initiated, t.asked)
                /\ Len(t.found) = Cardinality(PositionsOf(t.asked))
                /\ \A k \in 1..Len(t.found) :
                      \E i \in PositionsOf(t.asked) :
                         /\ t.found[k] = history[i]
                         /\ Cardinality({j \in PositionsOf(t.asked) : j < i}) = k - 1
          /\ (t.op = "clear_history" /\ t.pc = "done") => history = <<>>)
    /\ [][(task'[TheTest].op = "call" /\ task'[TheTest].pc = "done"
             /\ task[TheTest] # task'[TheTest]) =>
            get_last_call(history') = <<task'[TheTest].outcome>>]_vars

\* get_last_call() after two calls of different tools returned the second.
HistoryQueriesWitness ==
    LET t == task[TheTest] IN
    /\ t.op = "get_last_call" /\ t.pc = "done"
    /\ initiated = <<"echo", "fail">>
    /\ t.found # <<>> /\ t.found[1].name = "fail"
    /\ history[1] # history[2]

\* C31: start_server(name) on a server whose registered session is
\* connected returns that session in the same step, constructs no session
\* and starts no subprocess: the registry, the session objects and their
\* number are what they were, however often it is repeated.
StartServerIdempotent ==
    [][LET t == task[TheTest]
           n == t.name IN
       (/\ t.op = "start_server" /\ t.pc = "lock"
        /\ sessions[n] # NoSession
        /\ sess[sessions[n]].session
        /\ task'[TheTest] # t) =>
          /\ task'[TheTest].pc = "done"
          /\ task'[TheTest].exc = "none"
          /\ task'[TheTest].ret = sessions[n]
          /\ sessions' = sessions
          /\ nsess' = nsess
          /\ sess' = sess]_vars

\* start_server has returned the registered session of a server for which
\* one session was ever constructed, without constructing one itself.
StartServerIdempotentWitness ==
    LET t == task[TheTest] IN
    /\ t.op = "start_server" /\ t.pc = "done" /\ t.exc = "none"
    /\ t.sid = NoSession
    /\ t.ret # NoSession /\ t.ret = sessions[t.name]
    /\ SessionsOf(t.name) = {t.ret}
    /\ sess[t.ret].held = 2

\* C32: while connect() is in progress and the handshake has not completed
\* the session is not observable as connected: is_connected is false, and
\* no list_tools or call_tool of another task has got past the
\* not-connected test to the protocol session.
ConnectingNotObservable ==
    task[TheTest].pc \in ConnectPcs =>
        /\ ~is_connected(sess[TheSession])
        /\ \A t \in Callers \ {TheTest} :
              task[t].pc \notin {"list_wait", "tool_wait"}

\* C33: the details of NotAssertion's result say what the inner assertion
\* did: "failed as expected" when the inner check failed (the negation
\* passes), "passed but should have failed" when it passed.
NotDetailsStateInner ==
    LET t == task[TheTest] IN
    (Checked /\ t.assertion.cls = "NotAssertion" /\ t.exc = "none") =>
        /\ t.verdict.passed => t.verdict.details = "Inner assertion failed as expected"
        /\ ~t.verdict.passed =>
              t.verdict.details = "Inner assertion passed but should have failed"

\* A gather task of the parallel start that found its server connected
\* already: it constructed no session and returned the registered one.
FoundConnected(n) ==
    /\ task[ChildId(n)].pc = "done" /\ task[ChildId(n)].exc = "none"
    /\ task[ChildId(n)].sid = NoSession
    /\ task[ChildId(n)].ret # NoSession

\* C34: a failed parallel start_all_servers disconnects and unregisters
\* every server of the registry, a server that was connected before the
\* call included: once it has raised, the registry is empty and no session
\* the manager ever constructed is connected or holds a subprocess.
FailedParallelStopsEverything ==
    ParallelRaised =>
        /\ RegisteredNames(sessions) = {}
        /\ \A i \in 1..nsess : FullyDisconnected(sess[i])
        /\ \A n \in Names :
              FoundConnected(n) => FullyDisconnected(sess[task[ChildId(n)].ret])

\* A server was connected before the parallel start, another one failed to
\* connect: the first has been disconnected and unregistered too.
FailedParallelStopsEverythingWitness ==
    /\ ParallelRaised
    /\ \E n \in Names :
          /\ FoundConnected(n)
          /\ sessions[n] = NoSession
          /\ FullyDisconnected(sess[task[ChildId(n)].ret])
    /\ FailedServers # {}

\* start_all_servers, as __aenter__ and the mcp_server_manager fixture call
\* it, has raised.
StartAllRaised ==
    /\ task[TheTest].op \in {"start_all_seq", "start_all_par"}
    /\ task[TheTest].pc = "done"
    /\ task[TheTest].exc # "none"

\* C35: when entering the manager (or the fixture's startup) fails because
\* a server cannot be started, no server is left connected afterwards, in
\* sequential mode as in parallel mode.
FailedEntryLeavesNothing ==
    StartAllRaised =>
        /\ connected_servers(sess, sessions) = {}
        /\ \A i \in 1..nsess : ~is_connected(sess[i]) /\ sess[i].held = 0

\* No manager operation is in progress.
Quiescent == \A t \in TaskIds : task[t].pc \in {"idle", "done"}

\* C36: under any interleaving of start_server, start_all_servers,
\* stop_server and stop_all_servers every registry key is a configured
\* server name, and whenever no operation is in progress every connected
\* session the manager constructed is the registry entry of its name.
RegistryTracksLiveSessions ==
    /\ \A n \in AllNames : sessions[n] # NoSession => n \in Names
    /\ Quiescent =>
          \A i \in 1..nsess : is_connected(sess[i]) => sessions[sess[i].name] = i

\* The tasks of a test share one ToolCaller on one session, which the
\* test's own task connects: each of them makes calls, and a call of one may
\* be begun while a call of another is still awaited.
SpecOverlap ==
    /\ InitSession
    /\ [][\/ SessionConnect(TheTest, TheSession)
          \/ \E o \in ConnectOutcomes : ConnectStep(TheTest, o)
          \/ ConnectCleanup(TheTest)
          \/ \E t \in Callers, in \in CallInputs, to \in TimeoutInputs, e \in BOOLEAN :
                /\ Len(initiated) < MaxCalls
                /\ CallBegin(t, TheSession, in, to, e)
          \/ \E t \in Callers, u \in UnderlyingOutcomes : CallComplete(t, u)]_vars

\* The step resumes task t from its await of session.call_tool and call()
\* ends in it.
CallEndsIn(t) == task[t].pc = "call_wait" /\ task'[t].pc = "done"

\* The step appends the outcome that call() returns in task t.
RecordsOutcomeOf(t) ==
    /\ task'[t].op = "call"
    /\ task'[t].pc = "done"
    /\ history' = Append(history, task'[t].outcome)
    /\ task'[t].outcome.name = task'[t].call.tool

\* The invocations of call() that are suspended in session.call_tool.
CallsInFlight == {t \in Callers : task[t].pc = "call_wait"}

\* C37: when invocations of call() overlap on one ToolCaller, each of them
\* appends exactly one outcome, its own, at the moment it completes: the
\* history holds one entry per completed invocation, in completion order,
\* whatever the order in which the invocations were begun.
OverlappingCallsRecordInCompletionOrder ==
    /\ [](Len(history) + Cardinality(CallsInFlight) = Len(initiated))
    /\ [][/\ \A t \in Callers : CallEndsIn(t) => RecordsOutcomeOf(t)
          /\ history' # history => \E t \in Callers : RecordsOutcomeOf(t)]_vars

\* "echo" was begun before "fail" and both were in flight together; "fail"
\* completed first and is first in the history.
OverlappingCallsRecordInCompletionOrderWitness ==
    /\ initiated = <<"echo", "fail">>
    /\ HistoryNames = <<"fail", "echo">>
    /\ \A t \in Callers : task[t].pc = "done"
    /\ \E t \in Callers \ {TheTest} : task[TheTest].call.tool # task[t].call.tool

\* A test that connects the session and makes its calls through
\* call_and_assert, with assertion classes of its own among the assertions.
\* Among the assertions handed to call_and_assert are instances of a class
\* of the test's own, a subclass of BaseAssertion whose check() raises.
SpecAssertUser ==
    /\ InitSession
    /\ [][\/ SessionConnect(TheTest, TheSession)
          \/ \E o \in ConnectOutcomes : ConnectStep(TheTest, o)
          \/ ConnectCleanup(TheTest)
          \/ \E in \in CallInputs,
                 as \in AssertionLists \cup
                        {[given |-> TRUE, list |-> l] :
                            l \in UNION {[1..k -> AssertionKinds \cup {"RaisingAssertion"}] :
                                            k \in 1..MaxAssertions}} :
                CallAndAssertBegin(TheTest, TheSession, in, NoTimeout, as)
          \/ \E u \in UnderlyingOutcomes : CallComplete(TheTest, u)
          \/ ClearHistory(TheTest)]_vars

\* The step is one in which call_and_assert ends in the test task: begun
\* on a session that is not connected, or resumed from its await.
CallAndAssertEnds ==
    /\ task'[TheTest].op = "call_and_assert"
    /\ task'[TheTest].pc = "done"
    /\ \/ task[TheTest].pc = "call_wait"
       \/ initiated' # initiated

\* C38: call_and_assert appends the outcome of its call to the history
\* before it evaluates the assertions: the history grows by exactly one
\* entry, that outcome, per call_and_assert, also when it raises the
\* aggregated AssertionError and when the check of an assertion raises.
CallAndAssertRecordsBeforeAsserting ==
    [][CallAndAssertEnds =>
          /\ history' = Append(history, task'[TheTest].outcome)
          /\ task'[TheTest].outcome.name = task'[TheTest].call.tool
          /\ task'[TheTest].exc \in {"none", "AssertionError", "ValueError"}]_vars

\* One call_and_assert raised the aggregated AssertionError and the next
\* one raised out of an assertion's check: the history holds both outcomes.
CallAndAssertRecordsBeforeAssertingWitness ==
    /\ task[TheTest].op = "call_and_assert"
    /\ task[TheTest].pc = "done"
    /\ task[TheTest].exc = "ValueError"
    /\ "RaisingAssertion" \in {task[TheTest].checked[i] : i \in 1..Len(task[TheTest].checked)}
    /\ Len(history) = 2
    /\ history[2] = task[TheTest].outcome
    /\ history[1].name # history[2].name

\* The test's last call() was awaited on the session and failed: it timed
\* out, raised, or returned a result that carries the protocol error flag.
AwaitedCallFailed ==
    /\ task[TheTest].op = "call"
    /\ task[TheTest].pc = "done"
    /\ \/ task[TheTest].under = "timeout"
       \/ /\ task[TheTest].under = "exception"
          /\ task[TheTest].outcome.error_message.text
                = <<"Tool call failed: ">> \o ServerErrorMessage
       \/ /\ task[TheTest].under = "result"
          /\ task[TheTest].outcome.result.isError

\* C39: a tool call that times out, raises or returns a protocol-level
\* error leaves the connection state of the session as it was: the step
\* that ends the call changes no session object, the session is still
\* connected with its subprocess and streams held, and the next call on it
\* is sent (it suspends in the protocol call instead of failing at once).
CallFailureKeepsConnection ==
    /\ [](AwaitedCallFailed =>
             /\ is_connected(sess[TheSession])
             /\ sess[TheSession].stack /\ sess[TheSession].streams
             /\ sess[TheSession].held = 2)
    /\ [][(task[TheTest].pc = "call_wait" /\ task'[TheTest].pc = "done")
             => sess' = sess]_vars
    /\ [][(AwaitedCallFailed /\ Len(initiated') > Len(initiated))
             => task'[TheTest].pc = "call_wait"]_vars

\* A call timed out, and the call made after it on the same session has
\* been sent and is awaited.
CallFailureKeepsConnectionWitness ==
    /\ Len(history) = 1
    /\ history[1].error_message
          = Msg(TimeoutMessage(history[1].name, StartupTimeout))
    /\ task[TheTest].op = "call"
    /\ task[TheTest].pc = "call_wait"
    /\ is_connected(sess[TheSession])

\* connect() has just returned normally in the test task.
ConnectReturned ==
    /\ task[TheTest].op = "connect"
    /\ task[TheTest].pc = "done"
    /\ task[TheTest].exc = "none"

\* C40: a session can be reconnected.  Whatever connects and disconnects
\* came before on the session object, when connect() returns normally the
\* session is connected and holds exactly one subprocess/stream set (the
\* two contexts on its exit stack), and nothing acquired by an earlier
\* connect is still held.
ReconnectHoldsOneStreamSet ==
    ConnectReturned =>
        /\ is_connected(sess[TheSession])
        /\ sess[TheSession].stack /\ sess[TheSession].streams
        /\ sess[TheSession].held = 2
        /\ sess[TheSession].orphaned = 0

=============================================================================
